---------------------------- MODULE Spec2Model ----------------------------
(***************************************************************************)
(* A model of the table helpers of ds_utils: fuzzy_match / fuzzy_merge     *)
(* (src/fuzzy_match.py) and identify_first_numeric, create_multiindex,     *)
(* forward_fill_headers, turn_column_into_columns_values,                  *)
(* turn_row_into_rows, turn_row_into_rows_sep, check_number_rowscolumns    *)
(* and identify_row_differences (src/ds_utils/dataframe_operations.py),    *)
(* and of calculate_date_string_end_date                                   *)
(* (src/ds_utils/datetime_operations.py).                                  *)
(*                                                                         *)
(* A behaviour is one call.  The initial state holds the arguments of the  *)
(* call (args), an action runs the whole function and leaves its outcome   *)
(* in fn (which function ran), exc (the exception that left it, "" when    *)
(* it returned) and ret (what it returned).  caller_df is the content of   *)
(* the table object the caller passed, for the functions that can work in  *)
(* place (<<>> for the others, which only read their tables).              *)
(*                                                                         *)
(* Tables: a table of fuzzy_match is a record [index, values]: the row     *)
(* labels and, row by row, the cells of the comparison column.  Only       *)
(* single-level row indexes are modelled (df.index.nlevels = 1), so the    *)
(* to_flat_index branches of fuzzy_match.py:98-100 and :173-177 are not    *)
(* taken.  Text is a TLA+ string whose characters Chars gives; the missing *)
(* markers None, NaN and pd.NA are the strings of Missing.                 *)
(***************************************************************************)
EXTENDS Integers, Sequences, FiniteSets, TLC

VARIABLES args, fn, exc, ret, caller_df

vars == <<args, fn, exc, ret, caller_df>>

----------------------------------------------------------------------------
(* Bounds of the model *)

MaxLeft == 2

MaxRight == 2

MaxLimit == 2

MaxRows == 2

MaxCols == 2

MaxTableRows == 3

MaxTableCols == 3

MaxPositions == 3

MaxSourceRows == 3

MaxGroups == 2

MaxSplitRows == 3

MaxSplitCols == 2

MaxShape == 3

\* the tables compared have up to MaxDiffRows rows
MaxDiffRows == 2

\* the start years of the date strings run from MinYear to MaxYear
MinYear == 1998

MaxYear == 2000

----------------------------------------------------------------------------
(* Values *)

\* the three missing markers a cell can hold
Missing == {"None", "NaN", "NA"}

\* missing marker of a numeric field (match_score, df_right_id): numpy NaN
NaN_num == -1

\* the characters of a cell's string form: of a text, and of str() of a
\* missing marker
Chars(s) ==
    CASE s = "two"   -> <<"t", "w", "o">>
      [] s = "Too"   -> <<"T", "o", "o">>
      [] s = "one"   -> <<"o", "n", "e">>
      [] s = "too"   -> <<"t", "o", "o">>
      [] s = "three" -> <<"t", "h", "r", "e", "e">>
      [] s = "four"  -> <<"f", "o", "u", "r">>
      [] s = "fours" -> <<"f", "o", "u", "r", "s">>
      [] s = "five"  -> <<"f", "i", "v", "e">>
      [] s = "None"  -> <<"N", "o", "n", "e">>
      [] s = "NaN"   -> <<"n", "a", "n">>
      [] s = "NA"    -> <<"<", "N", "A", ">">>
      [] s = "abc"   -> <<"a", "b", "c">>
      [] s = "3"     -> <<"3">>
      [] s = "3rd"   -> <<"3", "r", "d">>
      [] s = "-3"    -> <<"-", "3">>

Max(a, b) == IF a >= b THEN a ELSE b

Min(a, b) == IF a <= b THEN a ELSE b

----------------------------------------------------------------------------
(* rapidfuzz, as fuzzy_match calls it: process.extract with the default    *)
(* scorer fuzz.WRatio and the processor utils.default_process.  Scores are *)
(* kept in hundredths (6666 is 66.66), rounded down.                       *)

LowerChar(c) ==
    CASE c = "T" -> "t"
      [] c = "N" -> "n"
      [] c = "A" -> "a"
      [] OTHER   -> c

IsAlnum(c) == c \notin {"<", ">", " "}

RECURSIVE LStrip(_)
LStrip(s) == IF s # <<>> /\ Head(s) = " " THEN LStrip(Tail(s)) ELSE s

RECURSIVE RStrip(_)
RStrip(s) ==
    IF s # <<>> /\ s[Len(s)] = " " THEN RStrip(SubSeq(s, 1, Len(s) - 1)) ELSE s

\* utils.default_process: lower-case, non-alphanumerics to spaces, trim
default_process(s) ==
    LStrip(RStrip([i \in 1..Len(s) |->
                     IF IsAlnum(s[i]) THEN LowerChar(s[i]) ELSE " "]))

\* length of the longest common subsequence of s and t
RECURSIVE LCS(_, _)
LCS(s, t) ==
    IF s = <<>> \/ t = <<>> THEN 0
    ELSE IF Head(s) = Head(t) THEN 1 + LCS(Tail(s), Tail(t))
    ELSE Max(LCS(Tail(s), t), LCS(s, Tail(t)))

\* fuzz.ratio: normalised Indel similarity, 100 * 2 * LCS / (len1 + len2)
ratio(s, t) ==
    IF Len(s) + Len(t) = 0 THEN 10000
    ELSE (20000 * LCS(s, t)) \div (Len(s) + Len(t))

\* fuzz.partial_ratio: the best ratio of the shorter string against the
\* windows of the longer one (its short prefixes and suffixes included)
partial_ratio(s, t) ==
    LET short == IF Len(s) <= Len(t) THEN s ELSE t
        long  == IF Len(s) <= Len(t) THEN t ELSE s
        n     == Len(short)
        wins  == {SubSeq(long, 1, k) : k \in 1..(n - 1)}
                   \cup {SubSeq(long, i, i + n - 1) : i \in 1..(Len(long) - n + 1)}
                   \cup {SubSeq(long, i, Len(long)) :
                           i \in (Len(long) - n + 2)..Len(long)}
        scores == {ratio(short, w) : w \in wins}
    IN  IF n = 0 THEN 0
        ELSE CHOOSE m \in scores : \A x \in scores : x <= m

\* fuzz.WRatio on one-word strings (for one word the token ratios equal
\* ratio, so their 0.95 weighting never wins)
WRatio(s, t) ==
    IF s = <<>> \/ t = <<>> THEN 0
    ELSE IF 2 * Max(Len(s), Len(t)) < 3 * Min(Len(s), Len(t))
         THEN ratio(s, t)
         ELSE Max(ratio(s, t), (9 * partial_ratio(s, t)) \div 10)

----------------------------------------------------------------------------
(* Tables of fuzzy_match *)

\* the columns every modelled table has; "col_c" names a column it lacks
Columns == {"col_a", "col_b"}

NRows(df) == Len(df.values)

UniqueIndex(df) ==
    \A i, j \in 1..NRows(df) : df.index[i] = df.index[j] => i = j

\* df.replace({pd.NA: None})
replace_NA(df) ==
    [df EXCEPT !.values =
        [i \in 1..NRows(df) |-> IF df.values[i] = "NA" THEN "None" ELSE df.values[i]]]

\* is_none, were NaN not taken for missing
is_none_OnlyNone(x) == x = "None"

\* what rapidfuzz takes for a missing query or choice
is_none(x) == x \in {"None", "NaN"}

\* the processor handed to process.extract
processor(x, clean_strings) ==
    IF clean_strings THEN default_process(Chars(x)) ELSE Chars(x)

\* every cell the modelled tables hold
Cells ==
    {"two", "Too", "one", "too", "three", "four", "fours", "five",
     "None", "NaN", "NA"}

\* the scorer's scores, in hundredths, computed once
Scores ==
    [query \in Cells, choice \in Cells, clean_strings \in BOOLEAN |->
        WRatio(processor(query, clean_strings), processor(choice, clean_strings))]

\* the scorer's score of a choice for a query
Score(query, choice, clean_strings) == Scores[query, choice, clean_strings]

\* the score of every choice for a query, by position of the right table;
\* a missing choice is skipped (no score, here NaN_num)
choice_scores(query, choices, clean_strings) ==
    [j \in 1..NRows(choices) |->
        IF is_none(choices.values[j]) THEN NaN_num
        ELSE Score(query, choices.values[j], clean_strings)]

\* the choices that reach the cutoff, as positions of the right table
Qualifying(scores, score_cutoff) ==
    {j \in DOMAIN scores : scores[j] # NaN_num /\ scores[j] >= 100 * score_cutoff}

\* Before, were the lowest scores put first
Before_WorstFirst(j, scores, score_cutoff) ==
    {k \in Qualifying(scores, score_cutoff) :
        scores[k] < scores[j] \/ (scores[k] = scores[j] /\ k < j)}

\* Before, were the later of two equal scores put first
Before_LaterTieFirst(j, scores, score_cutoff) ==
    {k \in Qualifying(scores, score_cutoff) :
        scores[k] > scores[j] \/ (scores[k] = scores[j] /\ k > j)}

\* the candidates that come before candidate j in the result list: the
\* higher scores, and among equal scores the earlier choices
Before(j, scores, score_cutoff) ==
    {k \in Qualifying(scores, score_cutoff) :
        scores[k] > scores[j] \/ (scores[k] = scores[j] /\ k < j)}

\* the position of the choice that is r-th in the result list
ranked(r, scores, score_cutoff) ==
    CHOOSE j \in Qualifying(scores, score_cutoff) :
        Cardinality(Before(j, scores, score_cutoff)) = r - 1

\* the (choice, score, key) of the choice at position j
result_tuple(j, scores, choices) ==
    [match_string |-> choices.values[j],
     match_score  |-> scores[j],
     df_right_id  |-> choices.index[j]]

\* the result list: the best `lim` qualifying choices, best first
result_list(scores, choices, lim, score_cutoff) ==
    [r \in 1..Min(lim, Cardinality(Qualifying(scores, score_cutoff))) |->
        result_tuple(ranked(r, scores, score_cutoff), scores, choices)]

\* extract, were `limit` not applied
extract_NoLimit(query, choices, lim, score_cutoff, clean_strings) ==
    IF is_none(query) THEN <<>>
    ELSE result_list(choice_scores(query, choices, clean_strings), choices,
                 NRows(choices), score_cutoff)

\* process.extract(query, choices, limit=, score_cutoff=, processor=): the
\* list of (choice, score, key) of the best `limit` choices, best first
extract(query, choices, lim, score_cutoff, clean_strings) ==
    IF is_none(query) THEN <<>>
    ELSE result_list(choice_scores(query, choices, clean_strings), choices,
                 lim, score_cutoff)

\* df_left[column_left].apply(lambda x: process.extract(x, df_right[column_right], ...))
series_matches(df_left, df_right, lim, score_cutoff, clean_strings) ==
    [index  |-> df_left.index,
     values |-> [i \in 1..NRows(df_left) |->
                   extract(df_left.values[i], df_right, lim, score_cutoff,
                           clean_strings)]]

\* series_matches.apply(lambda x: len(x) > 0): the positions of the rows
\* whose match list is not empty
kept_rows(s) ==
    SelectSeq([i \in 1..Len(s.values) |-> i], LAMBDA i : Len(s.values[i]) > 0)

\* the rows of a Series at the given positions
take(s, rows) ==
    [index  |-> [k \in 1..Len(rows) |-> s.index[rows[k]]],
     values |-> [k \in 1..Len(rows) |-> s.values[rows[k]]]]

\* series_matches[series_matches.apply(lambda x: len(x) > 0)]
drop_empty(s) == take(s, kept_rows(s))

\* DataFrame.explode: one row per element of each list, the row label
\* repeated; an empty list gives one row holding NaN (here the item <<>>,
\* an element e being the item <<e>>)
RECURSIVE explode(_)
explode(s) ==
    IF s.values = <<>> THEN <<>>
    ELSE LET l == Head(s.index)
             v == Head(s.values)
             rows == IF v = <<>>
                     THEN << [df_left_id |-> l, item |-> <<>>] >>
                     ELSE [k \in 1..Len(v) |-> [df_left_id |-> l, item |-> <<v[k]>>]]
         IN  rows \o explode([index |-> Tail(s.index), values |-> Tail(s.values)])

\* frame_raises, were the first element of an empty list looked at
frame_raises_OnEmpty(exploded) == exploded = <<>> \/ exploded[1].item = <<>>

\* pd.DataFrame(index=, data=<the exploded column>.tolist(), columns=[3 names]):
\* pandas reads the list as rows when its first element is a tuple, a NaN
\* element then giving a row of missing fields; a list whose first element
\* is NaN is read as one column of scalars, which three column names do not
\* fit (ValueError)
frame_raises(exploded) == exploded # <<>> /\ exploded[1].item = <<>>

frame_rows(exploded) ==
    [k \in 1..Len(exploded) |->
        IF exploded[k].item = <<>>
        THEN [df_left_id   |-> exploded[k].df_left_id,
              df_right_id  |-> NaN_num,
              match_string |-> "NaN",
              match_score  |-> NaN_num]
        ELSE [df_left_id   |-> exploded[k].df_left_id,
              df_right_id  |-> exploded[k].item[1].df_right_id,
              match_string |-> exploded[k].item[1].match_string,
              match_score  |-> exploded[k].item[1].match_score]]

\* the frame built from the exploded column, or the constructor's error
frame(exploded) ==
    IF frame_raises(exploded)
    THEN [exc |-> "ValueError", ret |-> <<>>]
    ELSE [exc |-> "",
          ret |-> [index_names |-> <<"df_left_id", "df_right_id">>,
                   columns     |-> <<"match_string", "match_score">>,
                   rows        |-> frame_rows(exploded)]]

\* if drop_na: series_matches = series_matches[...len(x) > 0]
dropped(sm, drop_na) == IF drop_na THEN drop_empty(sm) ELSE sm

\* fuzzy_match: [exc, ret]
fuzzy_match(df_left, df_right, column_left, column_right, score_cutoff, lim, clean_strings, drop_na) ==
    IF column_left \notin Columns
    THEN [exc |-> "KeyError", ret |-> <<>>]
    ELSE IF NRows(df_left) > 0 /\ column_right \notin Columns
    THEN [exc |-> "KeyError", ret |-> <<>>]
    ELSE frame(explode(dropped(
             series_matches(replace_NA(df_left), replace_NA(df_right), lim,
                            score_cutoff, clean_strings),
             drop_na)))

RECURSIVE Flatten(_)
Flatten(ss) == IF ss = <<>> THEN <<>> ELSE Head(ss) \o Flatten(Tail(ss))

\* df_left.merge(df_matches, how='left', left_index=True, right_on='df_left_id'):
\* every left row, once per record of df_matches carrying its label, or once
\* with missing match fields when there is none
merge_matches(df_left, matches) ==
    Flatten([i \in 1..NRows(df_left) |->
        LET recs == SelectSeq(matches, LAMBDA m : m.df_left_id = df_left.index[i])
        IN  IF recs = <<>>
            THEN << [df_left_id    |-> df_left.index[i],
                     col_a_df_left |-> df_left.values[i],
                     df_right_id   |-> NaN_num,
                     match_string  |-> "NaN",
                     match_score   |-> NaN_num] >>
            ELSE [k \in 1..Len(recs) |->
                    [df_left_id    |-> df_left.index[i],
                     col_a_df_left |-> df_left.values[i],
                     df_right_id   |-> recs[k].df_right_id,
                     match_string  |-> recs[k].match_string,
                     match_score   |-> recs[k].match_score]]])

\* .merge(df_right, how='left', left_on='df_right_id', right_index=True,
\*        suffixes=['_df_left', '_df_right']): every row, once per right row
\* labelled df_right_id, or once with missing right fields when there is none
merge_right(merged, df_right) ==
    Flatten([k \in 1..Len(merged) |->
        LET js == {j \in 1..NRows(df_right) : df_right.index[j] = merged[k].df_right_id}
            hits == SelectSeq([j \in 1..NRows(df_right) |-> j], LAMBDA j : j \in js)
        IN  IF hits = <<>>
            THEN << [df_left_id     |-> merged[k].df_left_id,
                     col_a_df_left  |-> merged[k].col_a_df_left,
                     df_right_id    |-> merged[k].df_right_id,
                     match_string   |-> merged[k].match_string,
                     match_score    |-> merged[k].match_score,
                     col_a_df_right |-> "NaN"] >>
            ELSE [h \in 1..Len(hits) |->
                    [df_left_id     |-> merged[k].df_left_id,
                     col_a_df_left  |-> merged[k].col_a_df_left,
                     df_right_id    |-> merged[k].df_right_id,
                     match_string   |-> merged[k].match_string,
                     match_score    |-> merged[k].match_score,
                     col_a_df_right |-> df_right.values[hits[h]]]]])

\* the two merges of fuzzy_merge, on the result of its fuzzy_match call
merged(df_left, df_right, df_matches) ==
    IF df_matches.exc # ""
    THEN df_matches
    ELSE [exc |-> "",
          ret |-> [rows |-> merge_right(
                              merge_matches(df_left, df_matches.ret.rows),
                              df_right)]]

\* fuzzy_merge: [exc, ret]
fuzzy_merge(df_left, df_right, column_left, column_right, score_cutoff, lim, clean_strings, drop_na) ==
    merged(df_left, df_right,
           fuzzy_match(df_left, df_right, column_left, column_right,
                       score_cutoff, lim, clean_strings, drop_na))

----------------------------------------------------------------------------
(* The calls of fuzzy_match and fuzzy_merge *)

Texts == {"two", "Too"}

CellValues == Texts \cup Missing

\* a table with pandas' default row labels 0..n-1
RangeTable(v) == [index |-> [i \in 1..Len(v) |-> i - 1], values |-> v]

RangeTables(max, cells) ==
    UNION {{RangeTable(v) : v \in [1..n -> cells]} : n \in 0..max}

\* the row labels tried for a table of n rows: pandas' default 0..n-1, the
\* same labels in reverse, and one label repeated
Indexes(n) ==
    {[i \in 1..n |-> i - 1], [i \in 1..n |-> n - i], [i \in 1..n |-> 0]}

\* the tables of at most two rows, with any of these labels, of the given cells
LabelledTables(cells) ==
    UNION {{[index |-> ix, values |-> v] :
              ix \in Indexes(n), v \in [1..n -> cells]} : n \in 0..2}

\* the tables of tests/test_fuzzy_match.py
TestLeft == RangeTable(<<"one", "two", "three", "four", "five">>)

TestRight == RangeTable(<<"one", "too", "three", "fours", "five", "five">>)

Cutoffs == {60, 90}

\* the calls made: every call on default-labelled tables within the bounds;
\* calls on small tables with other labels and every missing marker; calls
\* that name an absent column; and the calls of the tests
FuzzyArgs ==
    [df_left : RangeTables(MaxLeft, Texts \cup {"None"}),
     df_right : RangeTables(MaxRight, Texts \cup {"None"}),
     column_left : {"col_a"}, column_right : {"col_a"},
     score_cutoff : Cutoffs, limit : 1..MaxLimit,
     clean_strings : BOOLEAN, drop_na : BOOLEAN]
    \cup
    [df_left : LabelledTables(CellValues), df_right : LabelledTables(CellValues),
     column_left : {"col_a"}, column_right : {"col_a"},
     score_cutoff : {60}, limit : {1, 2},
     clean_strings : {TRUE}, drop_na : BOOLEAN]
    \cup
    [df_left : RangeTables(1, CellValues), df_right : RangeTables(1, CellValues),
     column_left : {"col_a", "col_c"}, column_right : {"col_a", "col_c"},
     score_cutoff : {90}, limit : {1},
     clean_strings : {TRUE}, drop_na : BOOLEAN]
    \cup
    [df_left : {TestLeft, RangeTable(<<>>)}, df_right : {TestRight, RangeTable(<<>>)},
     column_left : {"col_a", "col_c"}, column_right : {"col_a", "col_c"},
     score_cutoff : {60, 80}, limit : {2},
     clean_strings : {TRUE}, drop_na : BOOLEAN]

InitFuzzy ==
    /\ args \in FuzzyArgs
    /\ fn = ""
    /\ exc = ""
    /\ ret = <<>>
    /\ caller_df = <<>>

\* the arguments held are those of a fuzzy_match or fuzzy_merge call
FuzzyCall == "df_left" \in DOMAIN args

\* the call of f ends with the outcome r: an exception or a return value
Returns(f, r) ==
    /\ fn' = f
    /\ exc' = r.exc
    /\ ret' = r.ret

Call_fuzzy_match ==
    /\ fn = ""
    /\ FuzzyCall
    /\ Returns("fuzzy_match",
               fuzzy_match(args.df_left, args.df_right, args.column_left,
                           args.column_right, args.score_cutoff, args.limit,
                           args.clean_strings, args.drop_na))
    /\ UNCHANGED <<args, caller_df>>

Call_fuzzy_merge ==
    /\ fn = ""
    /\ FuzzyCall
    /\ Returns("fuzzy_merge",
               fuzzy_merge(args.df_left, args.df_right, args.column_left,
                           args.column_right, args.score_cutoff, args.limit,
                           args.clean_strings, args.drop_na))
    /\ UNCHANGED <<args, caller_df>>

NextFuzzy == Call_fuzzy_match \/ Call_fuzzy_merge

SpecFuzzy == InitFuzzy /\ [][NextFuzzy]_vars

----------------------------------------------------------------------------
(* Properties of fuzzy_match and fuzzy_merge *)

Returned(f) == fn = f /\ exc = ""

ValidColumns == args.column_left \in Columns /\ args.column_right \in Columns

\* the positions of the records of ret that are matches (not placeholders)
MatchRecs == {k \in 1..Len(ret.rows) : ret.rows[k].df_right_id # NaN_num}

\* the positions of the records of ret that carry the label of left row i
RecsOf(i) ==
    {k \in 1..Len(ret.rows) : ret.rows[k].df_left_id = args.df_left.index[i]}

\* the similarity of left row i and right row j, both holding text
Similarity(i, j) ==
    Score(args.df_left.values[i], args.df_right.values[j], args.clean_strings)

\* the right rows that are candidates for left row i: both hold text and
\* their similarity reaches the cutoff
Candidates(i) ==
    IF args.df_left.values[i] \in Missing THEN {}
    ELSE {j \in 1..NRows(args.df_right) :
            /\ args.df_right.values[j] \notin Missing
            /\ Similarity(i, j) >= 100 * args.score_cutoff}

\* C1: a returned fuzzy_match holds at most len(df_left) * limit matches,
\* each scoring at least score_cutoff; and for every row of a uniquely
\* labelled df_left at most `limit` matches, each the label, text and score
\* of a candidate right row, with every candidate that scores strictly
\* higher than a returned one returned too.
C1_BestMatches ==
    Returned("fuzzy_match") =>
        /\ Cardinality(MatchRecs) <= NRows(args.df_left) * args.limit
        /\ \A k \in MatchRecs : ret.rows[k].match_score >= 100 * args.score_cutoff
        /\ UniqueIndex(args.df_left) =>
             \A i \in 1..NRows(args.df_left) :
                LET mine == RecsOf(i) \cap MatchRecs
                IN  /\ Cardinality(mine) <= args.limit
                    /\ \A k \in mine :
                         /\ \E j \in Candidates(i) :
                              /\ args.df_right.index[j] = ret.rows[k].df_right_id
                              /\ args.df_right.values[j] = ret.rows[k].match_string
                              /\ Similarity(i, j) = ret.rows[k].match_score
                         /\ Cardinality({j \in Candidates(i) :
                                          Similarity(i, j) > ret.rows[k].match_score})
                              = Cardinality({k2 \in mine :
                                              ret.rows[k2].match_score
                                                > ret.rows[k].match_score})

\* C1 witness: a left row with more candidates than `limit`, of different
\* scores, has been cut down to its best
C1_Witness ==
    /\ Returned("fuzzy_match")
    /\ UniqueIndex(args.df_left)
    /\ \E i \in 1..NRows(args.df_left) :
         /\ Cardinality(Candidates(i)) > args.limit
         /\ \E j1, j2 \in Candidates(i) : Similarity(i, j1) > Similarity(i, j2)
         /\ Cardinality(RecsOf(i) \cap MatchRecs) = args.limit

\* the position of the row labelled l in a uniquely labelled table
PosOf(df, l) == CHOOSE i \in 1..NRows(df) : df.index[i] = l

TestCall ==
    /\ args.df_left = TestLeft
    /\ args.df_right = TestRight
    /\ ValidColumns
    /\ args.score_cutoff = 60
    /\ args.limit = 2

\* C2: the records of a returned fuzzy_match (uniquely labelled tables) come
\* in left-table row order, within a left row by descending score, equal
\* scores in right-table row order; and the call of test_simple_case returns
\* exactly the left ids 0,1,2,3,4,4 with the right ids 0,1,2,3,4,5.
C2_RecordOrder ==
    Returned("fuzzy_match") =>
        /\ (UniqueIndex(args.df_left) /\ UniqueIndex(args.df_right)) =>
             \A k1, k2 \in 1..Len(ret.rows) :
                k1 < k2 =>
                  LET r1 == ret.rows[k1]
                      r2 == ret.rows[k2]
                  IN  /\ PosOf(args.df_left, r1.df_left_id)
                           <= PosOf(args.df_left, r2.df_left_id)
                      /\ r1.df_left_id = r2.df_left_id =>
                           /\ r1.match_score >= r2.match_score
                           /\ r1.match_score = r2.match_score =>
                                PosOf(args.df_right, r1.df_right_id)
                                  < PosOf(args.df_right, r2.df_right_id)
        /\ TestCall =>
             /\ [k \in 1..Len(ret.rows) |-> ret.rows[k].df_left_id]
                  = <<0, 1, 2, 3, 4, 4>>
             /\ [k \in 1..Len(ret.rows) |-> ret.rows[k].df_right_id]
                  = <<0, 1, 2, 3, 4, 5>>

\* C2 witness: the call of test_simple_case has returned its six records
C2_Witness ==
    /\ Returned("fuzzy_match")
    /\ TestCall
    /\ Len(ret.rows) = 6

\* C3: in a returned fuzzy_match every match pairs a left label carried by a
\* left row holding text with a right label carried by a right row holding
\* that text: a row whose comparison value is None, NaN or pd.NA is on
\* neither side of a match.
C3_MissingNeverMatches ==
    Returned("fuzzy_match") =>
        \A k \in MatchRecs :
            /\ ret.rows[k].match_string \notin Missing
            /\ \E i \in 1..NRows(args.df_left) :
                 /\ args.df_left.index[i] = ret.rows[k].df_left_id
                 /\ args.df_left.values[i] \notin Missing
            /\ \E j \in 1..NRows(args.df_right) :
                 /\ args.df_right.index[j] = ret.rows[k].df_right_id
                 /\ args.df_right.values[j] = ret.rows[k].match_string

\* C3 witness: a call whose tables hold the same missing marker on both
\* sides, besides a match, has returned
C3_Witness ==
    /\ Returned("fuzzy_match")
    /\ MatchRecs # {}
    /\ \E i \in 1..NRows(args.df_left), j \in 1..NRows(args.df_right) :
         /\ args.df_left.values[i] \in Missing
         /\ args.df_right.values[j] = args.df_left.values[i]

\* what fuzzy_match does on the same arguments with drop_na the other way
OtherDropNa ==
    fuzzy_match(args.df_left, args.df_right, args.column_left, args.column_right,
                args.score_cutoff, args.limit, args.clean_strings, ~args.drop_na)

\* the records of a result that carry the label of left row i, in order
RowsOf(rows, i) ==
    SelectSeq(rows, LAMBDA r : r.df_left_id = args.df_left.index[i])

Placeholder(r) ==
    /\ r.df_right_id = NaN_num
    /\ r.match_string \in Missing
    /\ r.match_score = NaN_num

\* C4: fuzzy_match (existing columns, uniquely labelled df_left) returns,
\* and a left row without any match has no record when drop_na is true and
\* exactly one placeholder record when drop_na is false, while a left row
\* with matches has the same records under both settings.
C4_DropNa ==
    (fn = "fuzzy_match" /\ ValidColumns /\ UniqueIndex(args.df_left)) =>
        /\ exc = ""
        /\ OtherDropNa.exc = ""
        /\ \A i \in 1..NRows(args.df_left) :
             IF Candidates(i) = {}
             THEN IF args.drop_na
                  THEN RowsOf(ret.rows, i) = <<>>
                  ELSE /\ Len(RowsOf(ret.rows, i)) = 1
                       /\ Placeholder(RowsOf(ret.rows, i)[1])
             ELSE RowsOf(ret.rows, i) = RowsOf(OtherDropNa.ret.rows, i)

\* C5 as stated: in a returned fuzzy_match, whatever the tables, no
\* (df_left_id, df_right_id) pair occurs twice and no df_left_id occurs more
\* than `limit` times.
C5_PairsUniqueAnyTables ==
    Returned("fuzzy_match") =>
        /\ \A k1, k2 \in 1..Len(ret.rows) :
             (/\ ret.rows[k1].df_left_id = ret.rows[k2].df_left_id
              /\ ret.rows[k1].df_right_id = ret.rows[k2].df_right_id) => k1 = k2
        /\ \A k \in 1..Len(ret.rows) :
             Cardinality({k2 \in 1..Len(ret.rows) :
                            ret.rows[k2].df_left_id = ret.rows[k].df_left_id})
               <= args.limit

\* C5 amended: in a returned fuzzy_match on tables whose row labels are
\* unique, no (df_left_id, df_right_id) pair occurs twice and no df_left_id
\* occurs more than `limit` times.
C5_PairsUnique ==
    (UniqueIndex(args.df_left) /\ UniqueIndex(args.df_right)) =>
        C5_PairsUniqueAnyTables

\* C5 witness: on uniquely labelled tables two records share their left id
C5_Witness ==
    /\ Returned("fuzzy_match")
    /\ UniqueIndex(args.df_left)
    /\ UniqueIndex(args.df_right)
    /\ \E k1, k2 \in 1..Len(ret.rows) :
         k1 # k2 /\ ret.rows[k1].df_left_id = ret.rows[k2].df_left_id

EmptyTableCall ==
    /\ fn = "fuzzy_match"
    /\ ValidColumns
    /\ \/ NRows(args.df_left) = 0 /\ NRows(args.df_right) > 0
       \/ NRows(args.df_left) > 0 /\ NRows(args.df_right) = 0 /\ args.drop_na

\* C6: fuzzy_match on an empty df_left and a non-empty df_right, or on a
\* non-empty df_left and an empty df_right with drop_na true (the columns
\* existing), returns no record, under the index levels df_left_id,
\* df_right_id and the columns match_string, match_score.
C6_EmptyTable ==
    EmptyTableCall =>
        /\ exc = ""
        /\ ret.rows = <<>>
        /\ ret.index_names = <<"df_left_id", "df_right_id">>
        /\ ret.columns = <<"match_string", "match_score">>

\* C6 witness: the call on a left table with text and an empty right table
\* is over
C6_Witness ==
    /\ EmptyTableCall
    /\ NRows(args.df_right) = 0
    /\ \E i \in 1..NRows(args.df_left) : args.df_left.values[i] \notin Missing

\* C7: fuzzy_match leaves with KeyError whenever column_left is no column
\* of df_left or column_right is no column of df_right.
C7_KeyError ==
    (fn = "fuzzy_match" /\ ~ValidColumns) => exc = "KeyError"

\* the number of matches fuzzy_match finds for left row i
MatchCount(i) == Min(args.limit, Cardinality(Candidates(i)))

\* C8: fuzzy_merge (existing columns, uniquely labelled tables) returns, with
\* every left row that has k >= 1 matches in exactly k rows, each holding the
\* fields of a matched right row, and every left row without a match in
\* exactly one row whose right-side fields are missing.
C8_LeftMerge ==
    (fn = "fuzzy_merge" /\ ValidColumns
       /\ UniqueIndex(args.df_left) /\ UniqueIndex(args.df_right)) =>
        /\ exc = ""
        /\ \A i \in 1..NRows(args.df_left) :
             LET out == RowsOf(ret.rows, i)
             IN  /\ \A k \in 1..Len(out) :
                      out[k].col_a_df_left = args.df_left.values[i]
                 /\ IF MatchCount(i) >= 1
                    THEN /\ Len(out) = MatchCount(i)
                         /\ \A k \in 1..Len(out) :
                              \E j \in Candidates(i) :
                                 /\ out[k].df_right_id = args.df_right.index[j]
                                 /\ out[k].col_a_df_right = args.df_right.values[j]
                                 /\ out[k].match_string = args.df_right.values[j]
                         /\ \A k1, k2 \in 1..Len(out) :
                              out[k1].df_right_id = out[k2].df_right_id => k1 = k2
                    ELSE /\ Len(out) = 1
                         /\ Placeholder(out[1])
                         /\ out[1].col_a_df_right \in Missing

----------------------------------------------------------------------------
(* identify_first_numeric.  Its table is a grid, a sequence of rows of     *)
(* cells, with pandas' default labels 0..n-1 on the rows and on the        *)
(* columns, so that the label of a row or column is its ordinal.           *)

GridRows(df) == Len(df)

GridCols(df) == Len(df[1])

Digits == {"0", "1", "2", "3", "4", "5", "6", "7", "8", "9"}

\* whether DataFrame.apply(..., axis=axis) hands the function the columns
\* (axis 0 / 'index') or the rows (axis 1 / 'columns')
applies_to_columns(axis) == axis \in {"0", "index"}

\* the Series that DataFrame.apply hands to the function, in order, each
\* with its label as name
apply_lines(df, axis) ==
    IF applies_to_columns(axis)
    THEN [c \in 1..GridCols(df) |->
            [name |-> c - 1, cells |-> [r \in 1..GridRows(df) |-> df[r][c]]]]
    ELSE [r \in 1..GridRows(df) |-> [name |-> r - 1, cells |-> df[r]]]

\* column.astype(str).str[0].str.isnumeric().any()
check_nonnan_numeric_in_column(column) ==
    \E k \in 1..Len(column) : Head(Chars(column[k])) \in Digits

\* what the lambda handed to DataFrame.apply returns for one row or column:
\* "True", "False", or "None" for an excluded one
apply_result(x, exclude) ==
    LET checked == IF check_nonnan_numeric_in_column(x.cells) THEN "True" ELSE "False"
    IN  IF exclude.type = "NoneType" THEN checked
        ELSE IF exclude.type = "int" /\ ~(x.name = exclude.int) THEN checked
        ELSE IF exclude.type = "list" /\ x.name \notin exclude.items THEN checked
        ELSE "None"

\* idxmax, were the last True taken
idxmax_Last(results, lines) ==
    LET trues == {k \in 1..Len(results) : results[k] = "True"}
    IN  IF trues = {} THEN lines[1].name
        ELSE lines[CHOOSE k \in trues : \A k2 \in trues : k >= k2].name

\* Series.idxmax of a boolean Series: the label of its first True, and of
\* its first element when it holds no True
idxmax(results, lines) ==
    LET trues == {k \in 1..Len(results) : results[k] = "True"}
    IN  IF trues = {} THEN lines[1].name
        ELSE lines[CHOOSE k \in trues : \A k2 \in trues : k <= k2].name

\* identify_first_numeric: [exc, ret].  A Series holding a None is of
\* dtype object, on which idxmax is not allowed (TypeError).
identify_first_numeric(df, axis, exclude) ==
    LET lines   == apply_lines(df, axis)
        results == [k \in 1..Len(lines) |-> apply_result(lines[k], exclude)]
    IN  IF \E k \in 1..Len(results) : results[k] = "None"
        THEN [exc |-> "TypeError", ret |-> NaN_num]
        ELSE [exc |-> "", ret |-> idxmax(results, lines)]

Grids(maxrows, maxcols, cells) ==
    UNION {[1..r -> [1..c -> cells]] : r \in 1..maxrows, c \in 1..maxcols}

Axes == {"0", "1", "index", "columns"}

NoExclude == [type |-> "NoneType", int |-> 0, items |-> {}]

Excludes ==
    {NoExclude,
     [type |-> "int", int |-> 0, items |-> {}],
     [type |-> "int", int |-> 1, items |-> {}],
     [type |-> "list", int |-> 0, items |-> {0}],
     [type |-> "list", int |-> 0, items |-> {0, 1}],
     [type |-> "set", int |-> 0, items |-> {1}]}

\* the calls made: every call without exclusion on the grids within the
\* bounds, and every call on the small grids of all cell kinds
NumericArgs ==
    [df : Grids(MaxRows, MaxCols, {"NaN", "abc", "3"}),
     axis : Axes, exclude : {NoExclude}]
    \cup
    [df : Grids(2, 2, {"NaN", "None", "abc", "3", "3rd", "-3"}),
     axis : {"0", "columns"}, exclude : Excludes]

InitNumeric ==
    /\ args \in NumericArgs
    /\ fn = ""
    /\ exc = ""
    /\ ret = NaN_num
    /\ caller_df = <<>>

\* the arguments held are those of an identify_first_numeric call
NumericCall == "exclude" \in DOMAIN args

Call_identify_first_numeric ==
    /\ fn = ""
    /\ NumericCall
    /\ Returns("identify_first_numeric",
               identify_first_numeric(args.df, args.axis, args.exclude))
    /\ UNCHANGED <<args, caller_df>>

NextNumeric == Call_identify_first_numeric

SpecNumeric == InitNumeric /\ [][NextNumeric]_vars

----------------------------------------------------------------------------
(* Properties of identify_first_numeric *)

\* the rows or columns the call scans, each as its sequence of cells
Scanned ==
    IF args.axis \in {"0", "index"}
    THEN [c \in 1..GridCols(args.df) |->
            [r \in 1..GridRows(args.df) |-> args.df[r][c]]]
    ELSE args.df

\* a row or column with a non-missing cell whose string form starts with a
\* digit
NumericLooking(cells) ==
    \E k \in 1..Len(cells) :
        cells[k] \notin Missing /\ Head(Chars(cells[k])) \in Digits

SpecExample == << <<"NaN", "abc">>, <<"NaN", "3">> >>

C10_NotFound ==
    (fn = "identify_first_numeric"
       /\ \A k \in 1..Len(Scanned) : ~NumericLooking(Scanned[k])) =>
        exc = "NotFoundError"

\* the ordinals the caller asked to leave out
ExcludedOrdinals ==
    IF args.exclude.type = "int" THEN {args.exclude.int}
    ELSE IF args.exclude.type \in {"list", "set"} THEN args.exclude.items
    ELSE {}

\* the scanned rows/columns that are not left out and are numeric-looking,
\* as positions
EligibleNumeric ==
    {k \in 1..Len(Scanned) :
        (k - 1) \notin ExcludedOrdinals /\ NumericLooking(Scanned[k])}

\* C11: identify_first_numeric with an exclusion (one ordinal, a list or a
\* set of ordinals), on a table that has a numeric-looking row/column that
\* is not excluded, returns the ordinal of the first such one, never an
\* excluded ordinal.
C11_ExcludedSkipped ==
    (fn = "identify_first_numeric" /\ args.exclude # NoExclude
       /\ EligibleNumeric # {}) =>
        /\ exc = ""
        /\ ret \notin ExcludedOrdinals
        /\ (ret + 1) \in EligibleNumeric
        /\ \A k \in EligibleNumeric : ret + 1 <= k

----------------------------------------------------------------------------
(* create_multiindex.  A table is [index, columns, values]: the row        *)
(* labels, the column labels and the grid of cells.  The function reads    *)
(* the table by position only (df.iloc) and never looks into a cell.       *)

TableRows(df) == Len(df.index)

TableCols(df) == Len(df.columns)

\* create_default_header_names: f'row_{i}' / f'column_{i}' for i in
\* range(header_count), a name being kept as <<prefix, i>>
create_default_header_names(header_count, axis) ==
    IF axis \in {"0", "index"}
    THEN [exc |-> "", ret |-> [k \in 1..header_count |-> <<"row", k - 1>>]]
    ELSE IF axis \in {"1", "columns"}
    THEN [exc |-> "", ret |-> [k \in 1..header_count |-> <<"column", k - 1>>]]
    ELSE [exc |-> "ValueError", ret |-> <<>>]

\* df.iloc[header_row_count:, x].values for x in range(0, header_column_count):
\* one array per header column, the cells below the header rows
index_arrays(df, header_row_count, header_column_count) ==
    [x \in 1..header_column_count |->
        [k \in 1..(TableRows(df) - header_row_count) |->
            df.values[header_row_count + k][x]]]

\* df.iloc[x, header_column_count:].values for x in range(0, header_row_count):
\* one array per header row, the cells right of the header columns
column_arrays(df, header_row_count, header_column_count) ==
    [x \in 1..header_row_count |->
        [k \in 1..(TableCols(df) - header_column_count) |->
            df.values[x][header_column_count + k]]]

\* pd.MultiIndex.from_arrays(arrays): entry k is the tuple of the k-th
\* elements of the arrays, one level per array (n is the arrays' length)
from_arrays(arrays, n) ==
    [k \in 1..n |-> [level \in 1..Len(arrays) |-> arrays[level][k]]]

\* data_values, were the header rows and columns not skipped
data_values_FromTop(df, header_row_count, header_column_count) ==
    [r \in 1..(TableRows(df) - header_row_count) |->
        [c \in 1..(TableCols(df) - header_column_count) |-> df.values[r][c]]]

\* df.iloc[header_row_count:, header_column_count:].values
data_values(df, header_row_count, header_column_count) ==
    [r \in 1..(TableRows(df) - header_row_count) |->
        [c \in 1..(TableCols(df) - header_column_count) |->
            df.values[header_row_count + r][header_column_count + c]]]

\* create_multiindex with default header names: [exc, ret].  An empty list
\* of arrays is refused by pd.MultiIndex (ValueError: no levels); a
\* position past the last row/column is refused by df.iloc (IndexError),
\* while a slice start past the end or below zero is not.
create_multiindex(df, header_row_count, header_column_count) ==
    IF header_column_count <= 0
    THEN [exc |-> "ValueError", ret |-> <<>>]
    ELSE IF header_column_count > TableCols(df)
    THEN [exc |-> "IndexError", ret |-> <<>>]
    ELSE IF header_row_count <= 0
    THEN [exc |-> "ValueError", ret |-> <<>>]
    ELSE IF header_row_count > TableRows(df)
    THEN [exc |-> "IndexError", ret |-> <<>>]
    ELSE [exc |-> "",
          ret |-> [index_names  |->
                       create_default_header_names(header_column_count, "1").ret,
                   column_names |->
                       create_default_header_names(header_row_count, "0").ret,
                   index   |-> from_arrays(
                                 index_arrays(df, header_row_count,
                                              header_column_count),
                                 TableRows(df) - header_row_count),
                   columns |-> from_arrays(
                                 column_arrays(df, header_row_count,
                                               header_column_count),
                                 TableCols(df) - header_column_count),
                   values  |-> data_values(df, header_row_count,
                                           header_column_count)]]

\* labels no cell holds, for a table that comes with an index of its own
OwnLabels(n) == [k \in 1..n |-> 100 + k]

\* the table of n rows and m columns whose cells all differ (the cell of
\* row r and column c holds 10 r + c), with its own labels
DistinctTable(n, m) ==
    [index   |-> OwnLabels(n),
     columns |-> OwnLabels(m),
     values  |-> [r \in 1..n |-> [c \in 1..m |-> 10 * r + c]]]

\* the tables of at most two rows and columns over two cell values, one of
\* them missing, with pandas' default labels
SmallTables ==
    {[index   |-> [r \in 1..Len(g) |-> r - 1],
      columns |-> [c \in 1..Len(g[1]) |-> c - 1],
      values  |-> g] : g \in Grids(2, 2, {1, NaN_num})}

\* the calls made: every pair of header counts from below zero to past the
\* table's size
MultiindexArgs ==
    [table : {DistinctTable(n, m) : n \in 1..MaxTableRows, m \in 1..MaxTableCols}
               \cup SmallTables,
     header_row_count : (0 - 1)..(MaxTableRows + 1),
     header_column_count : (0 - 1)..(MaxTableCols + 1)]

InitMultiindex ==
    /\ args \in MultiindexArgs
    /\ fn = ""
    /\ exc = ""
    /\ ret = <<>>
    /\ caller_df = <<>>

\* the arguments held are those of a create_multiindex call
MultiindexCall == "header_row_count" \in DOMAIN args

Call_create_multiindex ==
    /\ fn = ""
    /\ MultiindexCall
    /\ Returns("create_multiindex",
               create_multiindex(args.table, args.header_row_count,
                                 args.header_column_count))
    /\ UNCHANGED <<args, caller_df>>

NextMultiindex == Call_create_multiindex

SpecMultiindex == InitMultiindex /\ [][NextMultiindex]_vars

----------------------------------------------------------------------------
(* Properties of create_multiindex *)

\* the header counts of the call split the table into a corner, a
\* column-hierarchy block, a row-hierarchy block and a data block
BlocksCall ==
    /\ fn = "create_multiindex"
    /\ args.header_row_count \in 1..TableRows(args.table)
    /\ args.header_column_count \in 1..TableCols(args.table)

\* every value the returned table holds: cells, row labels, column labels
ResultValues ==
    {ret.values[r][c] : r \in 1..Len(ret.values),
                        c \in 1..(TableCols(args.table) - args.header_column_count)}
    \cup {ret.index[k][level] : k \in 1..Len(ret.index),
                                level \in 1..args.header_column_count}
    \cup {ret.columns[k][level] : k \in 1..Len(ret.columns),
                                  level \in 1..args.header_row_count}

\* the cells of the top-left corner of the argument
CornerValues ==
    {args.table.values[r][c] : r \in 1..args.header_row_count,
                               c \in 1..args.header_column_count}

\* the row and column labels of the argument
PriorLabels ==
    {args.table.index[r] : r \in 1..TableRows(args.table)}
    \cup {args.table.columns[c] : c \in 1..TableCols(args.table)}

\* C12: create_multiindex with R header rows and C header columns (R, C at
\* least 1, within the table) returns a table whose cells are the data
\* block (the cell r, c being the argument's cell R + r, C + c), whose row
\* labels are the rows of the row-hierarchy block, one level per column,
\* whose column labels are the columns of the column-hierarchy block, one
\* level per row; on a table of distinct cells with its own labels, no
\* corner cell and no prior label is anywhere in the result.
C12_RoundTrip ==
    BlocksCall =>
        LET R == args.header_row_count
            C == args.header_column_count
            n == TableRows(args.table) - R
            m == TableCols(args.table) - C
        IN  /\ exc = ""
            /\ Len(ret.values) = n /\ Len(ret.index) = n /\ Len(ret.columns) = m
            /\ \A r \in 1..n :
                 /\ Len(ret.values[r]) = m
                 /\ \A c \in 1..m : ret.values[r][c] = args.table.values[R + r][C + c]
                 /\ Len(ret.index[r]) = C
                 /\ \A level \in 1..C :
                      ret.index[r][level] = args.table.values[R + r][level]
            /\ \A c \in 1..m :
                 /\ Len(ret.columns[c]) = R
                 /\ \A level \in 1..R :
                      ret.columns[c][level] = args.table.values[level][C + c]
            /\ args.table = DistinctTable(TableRows(args.table), TableCols(args.table))
                 => ResultValues \cap (CornerValues \cup PriorLabels) = {}

\* C12 witness: a call with two header rows and one header column has
\* returned a table with a data block of one row and two columns
C12_Witness ==
    /\ BlocksCall /\ exc = ""
    /\ args.table = DistinctTable(3, 3)
    /\ args.header_row_count = 2 /\ args.header_column_count = 1
    /\ ret.values = << <<32, 33>> >>
    /\ ret.index = << <<31>> >>
    /\ ret.columns = << <<12, 22>>, <<13, 23>> >>

\* C13: create_multiindex leaves with ValueError whenever a header count is
\* negative or larger than the table's number of rows/columns.
C13_ValueError ==
    (fn = "create_multiindex"
       /\ \/ args.header_row_count < 0
          \/ args.header_column_count < 0
          \/ args.header_row_count > TableRows(args.table)
          \/ args.header_column_count > TableCols(args.table)) =>
        exc = "ValueError"

----------------------------------------------------------------------------
(* forward_fill_headers.  The header levels are the first rows (axis 0 /   *)
(* 'index') or the first columns (axis 1 / 'columns') of the table, named  *)
(* by consecutive integer labels from the smallest label on.               *)

isna(x) == x \in Missing

\* the largest element of a set of positions
Last(S) == CHOOSE m \in S : \A x \in S : x <= m

fills_rows(axis) == axis \in {"0", "index"}

\* df.index (axis 0 / 'index') or df.columns: the labels that name the levels
level_labels(df, axis) == IF fills_rows(axis) THEN df.index ELSE df.columns

\* df.index.min() / df.columns.min()
label_min(labels) ==
    labels[CHOOSE k \in 1..Len(labels) : \A j \in 1..Len(labels) : labels[k] <= labels[j]]

has_label(labels, l) == \E k \in 1..Len(labels) : labels[k] = l

\* the position of the row/column that a label names
position(labels, l) == CHOOSE k \in 1..Len(labels) : labels[k] = l

\* df.loc[l] (axis 0 / 'index') or df.loc[:, l], as the sequence of its cells
get_level(df, axis, l) ==
    IF fills_rows(axis)
    THEN df.values[position(df.index, l)]
    ELSE [r \in 1..TableRows(df) |-> df.values[r][position(df.columns, l)]]

\* the table with the cells of row/column l replaced by those of line
set_level(df, axis, l, line) ==
    IF fills_rows(axis)
    THEN [df EXCEPT !.values[position(df.index, l)] = line]
    ELSE [df EXCEPT !.values =
            [r \in 1..TableRows(df) |->
                [df.values[r] EXCEPT ![position(df.columns, l)] = line[r]]]]

\* a forward-filled cell: a missing cell takes the value of the last of its
\* sources, when it has one
filled_cell(line, k, sources) ==
    IF isna(line[k]) /\ sources # {} THEN line[Last(sources)] ELSE line[k]

\* ffill, were a missing cell filled from the cell just before it only
ffill_OneStep(line) ==
    [k \in 1..Len(line) |-> filled_cell(line, k, {j \in {k - 1} : j >= 1 /\ ~isna(line[j])})]

\* Series.ffill
ffill(line) ==
    [k \in 1..Len(line) |-> filled_cell(line, k, {j \in 1..(k - 1) : ~isna(line[j])})]

\* df.loc[l].ffill(inplace=True) / df.loc[:, l].ffill(inplace=True): the
\* fill is made on the Series that df.loc hands out.  It reaches df only
\* when that Series shares its data with df (writes_through); when it is a
\* copy (a row across columns of different dtypes; any selection under
\* pandas' Copy-on-Write) df stays as it was.
fill_first(df, axis, l, writes_through) ==
    IF writes_through THEN set_level(df, axis, l, ffill(get_level(df, axis, l))) ELSE df

\* group_ffill, were the cells filled whatever their level i-1 value
group_ffill_AnyParent(parent, line) == ffill(line)

\* .groupby(i-1, sort=False)[[i]].ffill()[i], on the rows/columns whose
\* level i-1 is not missing: a missing cell takes the last value before it
\* among the cells with the same level i-1 value
group_ffill(parent, line) ==
    [k \in 1..Len(line) |->
        filled_cell(line, k,
            {j \in 1..(k - 1) : ~isna(line[j]) /\ ~isna(parent[j]) /\ parent[j] = parent[k]})]

\* df.loc[i] = <Series> / df.loc[:, i] = <Series>: the Series is aligned on
\* the labels; a row/column left out of it (level i-1 missing) gets NaN
aligned(parent, filled) ==
    [k \in 1..Len(filled) |-> IF isna(parent[k]) THEN "NaN" ELSE filled[k]]

\* one pass of the loop over the levels after the first
fill_level(df, axis, i) ==
    set_level(df, axis, i,
              aligned(get_level(df, axis, i - 1),
                      group_ffill(get_level(df, axis, i - 1), get_level(df, axis, i))))

\* for i in range(i, stop): fill level i; [exc, df].  A level label the
\* table lacks ends the loop with KeyError, the levels before it filled.
RECURSIVE fill_levels(_, _, _, _)
fill_levels(df, axis, i, stop) ==
    IF i >= stop THEN [exc |-> "", df |-> df]
    ELSE IF ~has_label(level_labels(df, axis), i) THEN [exc |-> "KeyError", df |-> df]
    ELSE fill_levels(fill_level(df, axis, i), axis, i + 1, stop)

\* caller_after, were the table never copied
caller_after_NoCopy(df, inplace, filled) == filled

\* if not inplace: df = df.copy(): the caller's table after the call
caller_after(df, inplace, filled) == IF inplace THEN filled ELSE df

\* what the call hands back: None (<<>>) in place, else the table (<<df>>)
returned(inplace, r) == IF r.exc = "" /\ ~inplace THEN <<r.df>> ELSE <<>>

\* the outcome of a call whose fill ended as r: [exc, ret, df]
filled_outcome(df, inplace, r) ==
    [exc |-> r.exc, ret |-> returned(inplace, r), df |-> caller_after(df, inplace, r.df)]

\* the fills, from the smallest label header_min on
fill_headers(df, header_count, axis, header_min, writes_through) ==
    fill_levels(fill_first(df, axis, header_min, writes_through), axis,
                header_min + 1, header_min + header_count)

\* forward_fill_headers: [exc, ret, df], df being the caller's table after
\* the call
forward_fill_headers(df, header_count, axis, inplace, writes_through) ==
    IF axis \notin {"0", "index", "1", "columns"}
    THEN [exc |-> "ValueError", ret |-> <<>>, df |-> df]
    ELSE IF header_count <= 0
    THEN [exc |-> "ValueError", ret |-> <<>>, df |-> df]
    ELSE filled_outcome(df, inplace,
             fill_headers(df, header_count, axis,
                          label_min(level_labels(df, axis)), writes_through))

\* the values that tell the cells of the last header level apart
LeafNames == <<"x1", "x2", "x3", "x4", "x5">>

\* a line of n cells, each missing or holding the name of its position
LeafLines(n) == {[k \in 1..n |-> IF k \in S THEN LeafNames[k] ELSE "NaN"] : S \in SUBSET (1..n)}

\* a line of n cells, each missing or one of the given values
ParentLines(n, parents) == [1..n -> parents \cup {"NaN"}]

Transpose(lines) ==
    [r \in 1..Len(lines[1]) |-> [c \in 1..Len(lines) |-> lines[c][r]]]

\* the table whose rows (axis 0 / 'index') or columns are the given lines,
\* outermost level first, the levels labelled first, first + 1, ...
LevelTable(lines, axis, first) ==
    IF fills_rows(axis)
    THEN [index   |-> [k \in 1..Len(lines) |-> first + k - 1],
          columns |-> [k \in 1..Len(lines[1]) |-> k - 1],
          values  |-> lines]
    ELSE [index   |-> [k \in 1..Len(lines[1]) |-> k - 1],
          columns |-> [k \in 1..Len(lines) |-> first + k - 1],
          values  |-> Transpose(lines)]

\* a call is made on the table df
FillArgs(df, header_count, axis, inplace, writes_through) ==
    /\ args = [df |-> df, header_count |-> header_count, axis |-> axis,
               inplace |-> inplace, writes_through |-> writes_through]
    /\ fn = ""
    /\ exc = ""
    /\ ret = <<>>
    /\ caller_df = df

\* two header levels over two parent values
InitFill_TwoLevels ==
    \E l0 \in ParentLines(MaxPositions, {"one", "two"}), l1 \in LeafLines(MaxPositions),
       axis \in {"0", "columns"}, header_count \in 1..3, writes_through \in BOOLEAN :
        FillArgs(LevelTable(<<l0, l1>>, axis, 0), header_count, axis, FALSE, writes_through)

\* three header levels
InitFill_ThreeLevels ==
    \E l0 \in ParentLines(MaxPositions, {"three"}), l1 \in ParentLines(MaxPositions, {"four"}),
       l2 \in LeafLines(MaxPositions), axis \in {"0", "columns"}, writes_through \in BOOLEAN :
        FillArgs(LevelTable(<<l0, l1, l2>>, axis, 0), 3, axis, FALSE, writes_through)

\* every spelling of the axis and every sign of header_count, in place or
\* not, on levels labelled from 0 or from 2
InitFill_Modes ==
    \E l0 \in ParentLines(2, {"one"}), l1 \in LeafLines(2), axis \in Axes \cup {"2"},
       first \in {0, 2}, header_count \in (0 - 1)..2, inplace \in BOOLEAN,
       writes_through \in BOOLEAN :
        FillArgs(LevelTable(<<l0, l1>>, axis, first), header_count, axis, inplace, writes_through)

InitFill == InitFill_TwoLevels \/ InitFill_ThreeLevels \/ InitFill_Modes

\* the arguments held are those of a forward_fill_headers call
FillCall == "header_count" \in DOMAIN args

\* the call of f ends with the outcome r, the caller's table included
ReturnsWith(f, r) ==
    /\ Returns(f, r)
    /\ caller_df' = r.df

Call_forward_fill_headers ==
    /\ fn = ""
    /\ FillCall
    /\ ReturnsWith("forward_fill_headers",
                   forward_fill_headers(caller_df, args.header_count, args.axis,
                                        args.inplace, args.writes_through))
    /\ UNCHANGED args

NextFill == Call_forward_fill_headers

SpecFill == InitFill /\ [][NextFill]_vars

----------------------------------------------------------------------------
(* turn_column_into_columns_values and turn_column_into_columns.  A table  *)
(* is [names, index_count, values]: names are the names of the index       *)
(* levels followed by those of the columns, index_count is the number of   *)
(* index levels (0 for a default index), and a row of values holds its     *)
(* index values followed by its cells.  None is "None", so the catch-all   *)
(* group [None] is <<"None">>; an optional list is <<>> when None is       *)
(* passed and <<list>> otherwise.                                          *)

\* item in list
Contains(list, item) == \E k \in 1..Len(list) : list[k] = item

\* list.index(item) / Index.get_loc(item), counted from 0
index_of(list, item) == (CHOOSE k \in 1..Len(list) : list[k] = item) - 1

\* list.count(item)
count(list, item) == Cardinality({k \in 1..Len(list) : list[k] = item})

\* df.index.names of a table with named index levels
index_names(df) == SubSeq(df.names, 1, df.index_count)

\* df.columns
column_labels(df) == SubSeq(df.names, df.index_count + 1, Len(df.names))

\* df.reset_index(): the index levels become the first columns
reset_index(df) == [df EXCEPT !.index_count = 0]

\* df.reset_index(drop=True): the index levels are dropped
drop_index(df) ==
    [names       |-> column_labels(df),
     index_count |-> 0,
     values      |-> [r \in 1..Len(df.values) |->
                        SubSeq(df.values[r], df.index_count + 1, Len(df.names))]]

\* df.loc[:, column].values
column_values(df, column) ==
    [r \in 1..Len(df.values) |-> df.values[r][index_of(df.names, column) + 1]]

\* [item for sublist in values for item in sublist]
RECURSIVE flattened(_)
flattened(values) ==
    IF values = <<>> THEN <<>> ELSE Head(values) \o flattened(Tail(values))

\* values_not_found, were the first absent value reported only
values_not_found_First(items, source) ==
    LET absent == SelectSeq(items, LAMBDA item : item # "None" /\ ~Contains(source, item))
    IN  IF absent = <<>> THEN <<>> ELSE <<Head(absent)>>

\* the items of the groups that are not None and not in the column
values_not_found(items, source) ==
    SelectSeq(items, LAMBDA item : item # "None" /\ ~Contains(source, item))

\* [f'column_{i}' for i in range(len(values))]
default_column_names == <<"column_0", "column_1", "column_2", "column_3">>

\* if not column_names: column_names = [...]
names_given(column_names, n) ==
    IF column_names = <<>> \/ column_names[1] = <<>>
    THEN SubSeq(default_column_names, 1, n)
    ELSE column_names[1]

\* source.where(source.isin(sublist))
named_column(source, sublist) ==
    [r \in 1..Len(source) |-> IF Contains(sublist, source[r]) THEN source[r] ELSE "NaN"]

\* source.where(df_new_columns[other_columns].isna().all(axis=1))
catchall_column(source, others) ==
    [r \in 1..Len(source) |->
        IF \A c \in 1..Len(others) : isna(others[c][r]) THEN source[r] ELSE "NaN"]

\* the loop over the groups: the new columns, one per group.  The catch-all
\* group is the last one (lines 554-559), so the other columns are the
\* columns of the groups before it, already set.
filtered_columns(source, values) ==
    [i \in 1..Len(values) |->
        IF values[i] # <<"None">>
        THEN named_column(source, values[i])
        ELSE catchall_column(source,
                 [j \in 1..(Len(values) - 1) |-> named_column(source, values[j])])]

\* filled_columns, were the column of the catch-all group filled as well
filled_columns_All(new_columns) == [i \in 1..Len(new_columns) |-> ffill(new_columns[i])]

\* df_new_columns[other_columns] = df_new_columns[other_columns].ffill():
\* other_columns is what the catch-all pass left, every column but the last
filled_columns(new_columns) ==
    [i \in 1..Len(new_columns) |->
        IF i < Len(new_columns) THEN ffill(new_columns[i]) ELSE new_columns[i]]

\* Series.fillna(value)
fillna(line, value) == [r \in 1..Len(line) |-> IF isna(line[r]) THEN value ELSE line[r]]

\* the loop over missing_values
supplied_columns(new_columns, missing_values) ==
    [i \in 1..Len(new_columns) |->
        IF i <= Len(missing_values) /\ missing_values[i] # "None"
        THEN fillna(new_columns[i], missing_values[i])
        ELSE new_columns[i]]

\* result_row, were the new cells put before all the others
result_row_NewFirst(row, column_position, new_columns, r) ==
    [i \in 1..Len(new_columns) |-> new_columns[i][r]]
        \o SubSeq(row, 1, column_position)
        \o SubSeq(row, column_position + 2, Len(row))

\* a row of the result: the cells before the column, the new cells, the
\* cells after the column
result_row(row, column_position, new_columns, r) ==
    SubSeq(row, 1, column_position)
        \o [i \in 1..Len(new_columns) |-> new_columns[i][r]]
        \o SubSeq(row, column_position + 2, Len(row))

\* pd.concat([before, df_new_columns, after], axis=1), the index dropped and
\* the columns named again (lines 605-641), then the index set again when
\* the column was an index level (lines 644-651).  df is the table after
\* line 533 or, the column being no index level, without its index.
df_result(df, column_position, column_names, new_columns, index_count) ==
    [names       |-> SubSeq(df.names, 1, column_position) \o column_names
                        \o SubSeq(df.names, column_position + 2, Len(df.names)),
     index_count |-> index_count,
     values      |-> [r \in 1..Len(df.values) |->
                        result_row(df.values[r], column_position, new_columns, r)]]

\* the outcome of a call that fails with the exception e
raised(e) == [exc |-> e, ret |-> <<>>]

\* lines 538-653, on the table df whose columns are all its names.
\* index_levels is the number of index levels the result gets besides the
\* new columns, or -1 when the column was no index level.
split_column(df, column, column_position, index_levels, values, missing_values, column_names, strict) ==
    IF strict /\ values_not_found(flattened(values), column_values(df, column)) # <<>>
    THEN [exc |-> "ValueError",
          ret |-> values_not_found(flattened(values), column_values(df, column))]
    ELSE IF ~strict THEN raised("NotImplementedError")
    ELSE IF count(values, <<"None">>) > 1 THEN raised("ValueError")
    ELSE IF count(values, <<"None">>) = 1 /\ values[Len(values)] # <<"None">>
    THEN raised("ValueError")
    \* pd.concat of no column; set_axis with the wrong number of labels
    ELSE IF Len(values) = 0 THEN raised("ValueError")
    ELSE IF Len(names_given(column_names, Len(values))) # Len(values) THEN raised("ValueError")
    \* line 598 reads other_columns, bound in the catch-all pass only
    ELSE IF count(values, <<"None">>) = 0 THEN raised("UnboundLocalError")
    \* line 601: enumerate(None)
    ELSE IF missing_values = <<>> THEN raised("TypeError")
    \* line 603: column_names[i] beyond the last name
    ELSE IF \E i \in (Len(values) + 1)..Len(missing_values[1]) : missing_values[1][i] # "None"
    THEN raised("IndexError")
    ELSE [exc |-> "",
          ret |-> df_result(df, column_position, names_given(column_names, Len(values)),
                      supplied_columns(filled_columns(
                          filtered_columns(column_values(df, column), values)),
                          missing_values[1]),
                      IF index_levels < 0 THEN 0 ELSE index_levels + Len(values))]

\* turn_column_into_columns_values: [exc, ret]
turn_column_into_columns_values(df, column, values, missing_values, column_names, strict) ==
    IF Contains(index_names(df), column)
    THEN split_column(reset_index(df), column, index_of(index_names(df), column),
                      df.index_count - 1, values, missing_values, column_names, strict)
    ELSE IF ~Contains(column_labels(df), column) THEN raised("KeyError")
    ELSE split_column(drop_index(df), column, index_of(column_labels(df), column),
                      0 - 1, values, missing_values, column_names, strict)

\* turn_column_into_columns: [exc, ret]
turn_column_into_columns(df, column, split_by, sep, values, missing_values, column_names, strict) ==
    IF split_by \notin {"values", "sep"} THEN raised("ValueError")
    ELSE IF split_by = "sep" /\ sep = <<>> THEN raised("ValueError")
    ELSE IF split_by = "values" /\ (values = <<>> \/ values[1] = <<>>) THEN raised("ValueError")
    ELSE IF split_by = "sep" THEN raised("NotImplementedError")
    ELSE turn_column_into_columns_values(df, column, values[1], missing_values,
                                         column_names, strict)

\* the cells that tell the rows of another column apart
OtherCells(name) ==
    CASE name = "o" -> <<"o1", "o2", "o3", "o4", "o5", "o6">>
      [] name = "p" -> <<"p1", "p2", "p3", "p4", "p5", "p6">>
      [] OTHER      -> <<"k1", "k2", "k3", "k4", "k5", "k6">>

\* the table with the given names, the column "c" holding source and every
\* other column its own cells
SourceTable(names, index_count, source) ==
    [names       |-> names,
     index_count |-> index_count,
     values      |-> [r \in 1..Len(source) |->
                        [n \in 1..Len(names) |->
                            IF names[n] = "c" THEN source[r] ELSE OtherCells(names[n])[r]]]]

\* the source columns
Sources == UNION {[1..n -> {"A", "B", "C", "NaN"}] : n \in 1..MaxSourceRows}

\* the groups of values, the catch-all group among them
Groups == {<<"A">>, <<"A", "B">>, <<"C">>, <<"None">>}

\* the lists of groups
ValueLists == UNION {[1..n -> Groups] : n \in 0..MaxGroups}

\* a call is made on the table df
SplitArgs(df, column, split_by, sep, values, missing_values, column_names, strict) ==
    /\ args = [df |-> df, column |-> column, split_by |-> split_by, sep |-> sep,
               values |-> values, missing_values |-> missing_values,
               column_names |-> column_names, strict |-> strict]
    /\ fn = ""
    /\ exc = ""
    /\ ret = <<>>
    /\ caller_df = df

\* every list of groups on every source column, the column between two
\* others
InitSplit_Groups ==
    \E source \in Sources, values \in ValueLists,
       missing_values \in {<<>>, << <<>> >>, << <<"None", "Total">> >>, << <<"Total">> >>} :
        SplitArgs(SourceTable(<<"o", "c", "p">>, 0, source), "c", "values", <<>>,
                  <<values>>, missing_values, <<>>, TRUE)

\* every place of the column, as a column or as an index level, and every
\* mode of the call
InitSplit_Modes ==
    \E source \in {<<"A", "B", "C", "D">>, <<"C", "A", "NaN">>},
       values \in {<< <<>> >>, << << <<"A", "B">>, <<"None">> >> >>,
                   << << <<"None">>, <<"A", "B">> >> >>, << << <<"A">>, <<"C">> >> >>},
       layout \in {<< <<"c">>, 0 >>, << <<"c", "o">>, 0 >>, << <<"o", "c">>, 0 >>,
                   << <<"c", "o">>, 1 >>, << <<"k", "c", "o">>, 2 >>,
                   << <<"k", "c", "o">>, 1 >>, << <<"k", "o">>, 1 >>},
       split_by \in {"values", "sep", "rows"}, sep \in {<<>>, <<"-">>},
       missing_values \in {<<>>, << <<>> >>, << <<"None", "None", "Total">> >>},
       column_names \in {<<>>, << <<"first", "rest">> >>, << <<"first">> >>},
       strict \in BOOLEAN :
        SplitArgs(SourceTable(layout[1], layout[2], source), "c", split_by, sep,
                  values, missing_values, column_names, strict)

InitSplit == InitSplit_Groups \/ InitSplit_Modes

\* the arguments held are those of a turn_column_into_columns call
SplitCall == "split_by" \in DOMAIN args

\* a direct call of turn_column_into_columns_values, which takes a list
Call_turn_column_into_columns_values ==
    /\ fn = ""
    /\ SplitCall
    /\ args.values # <<>>
    /\ Returns("turn_column_into_columns_values",
               turn_column_into_columns_values(args.df, args.column, args.values[1],
                   args.missing_values, args.column_names, args.strict))
    /\ UNCHANGED <<args, caller_df>>

Call_turn_column_into_columns ==
    /\ fn = ""
    /\ SplitCall
    /\ Returns("turn_column_into_columns",
               turn_column_into_columns(args.df, args.column, args.split_by, args.sep,
                   args.values, args.missing_values, args.column_names, args.strict))
    /\ UNCHANGED <<args, caller_df>>

NextSplit == Call_turn_column_into_columns_values \/ Call_turn_column_into_columns

SpecSplit == InitSplit /\ [][NextSplit]_vars

----------------------------------------------------------------------------
(* turn_row_into_rows and turn_row_into_rows_sep.  A cell is a missing     *)
(* marker or a text, a text being known by its characters; a separator is  *)
(* one character.                                                          *)

RowTexts == {"a-b", "c", "d-e-f", "-", "a", "b", "d", "e", "f", ""}

\* the characters of a text
RowChars(text) ==
    CASE text = "a-b"   -> <<"a", "-", "b">>
      [] text = "d-e-f" -> <<"d", "-", "e", "-", "f">>
      [] text = ""      -> <<>>
      [] OTHER          -> <<text>>

\* the text made of the given characters
RowText(chars) == CHOOSE text \in RowTexts : RowChars(text) = chars

\* sep in value
sep_in(sep, value) == \E k \in 1..Len(RowChars(value)) : RowChars(value)[k] = sep

\* the positions of the separator in a sequence of characters
sep_positions(chars, sep) == {k \in 1..Len(chars) : chars[k] = sep}

\* the least of a set of positions
First(S) == CHOOSE m \in S : \A x \in S : m <= x

\* str.split(sep), on characters
RECURSIVE split_chars(_, _)
split_chars(chars, sep) ==
    IF sep_positions(chars, sep) = {} THEN <<chars>>
    ELSE <<SubSeq(chars, 1, First(sep_positions(chars, sep)) - 1)>>
            \o split_chars(SubSeq(chars, First(sep_positions(chars, sep)) + 1, Len(chars)), sep)

\* value.split(sep): the parts of a text, as texts
split(value, sep) ==
    [k \in 1..Len(split_chars(RowChars(value), sep)) |->
        RowText(split_chars(RowChars(value), sep)[k])]

\* any(sep in value for value in df.iloc[row].dropna().values.tolist())
sep_in_any(cells, sep) == \E c \in 1..Len(cells) : ~isna(cells[c]) /\ sep_in(sep, cells[c])

\* df.iloc[row].str.split(sep): a list per text, a missing marker otherwise
col_lists(cells, sep) ==
    [c \in 1..Len(cells) |-> IF isna(cells[c]) THEN <<>> ELSE split(cells[c], sep)]

\* the largest of a set of numbers
Largest(S) == CHOOSE m \in S : \A x \in S : x <= m

\* max([len(x) for x in col_lists if ... type(x) is list])
max_len(cells, sep) ==
    Largest({Len(split(cells[c], sep)) : c \in {c \in 1..Len(cells) : ~isna(cells[c])}})

\* the lists padded with pd.NA to max_len and exploded: row k holds the
\* k-th item of every list
df_new_rows(lists, len) ==
    [k \in 1..len |->
        [c \in 1..Len(lists) |-> IF k <= Len(lists[c]) THEN lists[c][k] ELSE "NA"]]

\* df.iloc[row]: the position, from 1, that the integer row names
iloc_position(df, row) == IF row < 0 THEN TableRows(df) + row + 1 ELSE row + 1

\* df_result.drop(row, axis=0): the rows but the one whose label is row
rows_kept(df, row) ==
    SubSeq(df.values, 1, position(df.index, row) - 1)
        \o SubSeq(df.values, position(df.index, row) + 1, TableRows(df))

\* pd.concat([df_new_rows, df_result], ignore_index=True).reset_index(drop=True)
prepended(df, new_rows, kept) ==
    [index   |-> [k \in 1..(Len(new_rows) + Len(kept)) |-> k - 1],
     columns |-> df.columns,
     values  |-> new_rows \o kept]

\* lines 863-901, on the cells of the row to split
split_row(df, row, sep, cells) ==
    IF ~has_label(df.index, row) THEN raised("KeyError")
    ELSE [exc |-> "",
          ret |-> prepended(df, df_new_rows(col_lists(cells, sep), max_len(cells, sep)),
                            rows_kept(df, row))]

\* lines 851-861, on the cells of the row to split
checked_row(df, row, sep, strict, cells) ==
    IF strict /\ ~sep_in_any(cells, sep) THEN raised("ValueError")
    ELSE IF ~strict /\ ~sep_in_any(cells, sep) THEN [exc |-> "", ret |-> df]
    ELSE split_row(df, row, sep, cells)

\* turn_row_into_rows: [exc, ret]
turn_row_into_rows(df, row, sep, strict) ==
    IF iloc_position(df, row) \notin 1..TableRows(df) THEN raised("IndexError")
    ELSE checked_row(df, row, sep, strict, df.values[iloc_position(df, row)])

\* df_no_index.loc[row].dropna().values.tolist(): the header cells that are
\* not missing
header_values(df) == SelectSeq(df.columns, LAMBDA value : ~isna(value))

\* all(sep in value for value in <the first header cell>): the loop runs
\* over the characters of that one cell
sep_in_all(sep, value) == \A k \in 1..Len(RowChars(value)) : RowChars(value)[k] = sep

\* lines 787-807, the check of line 777 passed: len(None); pd.concat of
\* nothing; the header repeated once per name is one Series of
\* len(row_names) * columns cells, which set_axis does not label with
\* len(row_names) names unless there is one column; and then
\* df_new_rows.loc[row_name] is a text, which has no apply
split_header(df, row_names) ==
    IF row_names = <<>> THEN raised("TypeError")
    ELSE IF row_names[1] = <<>> THEN raised("ValueError")
    ELSE IF TableCols(df) # 1 THEN raised("ValueError")
    ELSE raised("AttributeError")

\* lines 774-785, row being the name of the header row
checked_header(df, sep, row_names, strict, values) ==
    IF ~strict THEN raised("NotImplementedError")
    ELSE IF values = <<>> THEN raised("IndexError")
    ELSE IF ~sep_in_all(sep, values[1]) THEN raised("ValueError")
    ELSE split_header(df, row_names)

\* turn_row_into_rows_sep: [exc, ret].  df_no_index is bound only when row
\* is the name of the header row (lines 752-772).
turn_row_into_rows_sep(df, row, sep, row_names, strict) ==
    IF row = df.columns_name THEN checked_header(df, sep, row_names, strict, header_values(df))
    ELSE IF ~has_label(df.index, row) THEN raised("KeyError")
    ELSE IF strict THEN raised("UnboundLocalError")
    ELSE raised("NotImplementedError")

\* the cells of a row to split
SplitCells == {"a-b", "c", "d-e-f", "NaN"}

\* the separators: one that the cells have and one that they lack
Separators == {"-", "/"}

\* the table of n rows whose row at position row (from 0) is line, the
\* other rows holding cells of their own, with the given labels
RowTable(n, row, line, labels) ==
    [index   |-> labels,
     columns |-> [c \in 1..Len(line) |-> c - 1],
     values  |-> [r \in 1..n |->
                    IF r = row + 1 THEN line
                    ELSE [c \in 1..Len(line) |-> OtherCells(IF c = 1 THEN "o" ELSE "p")[r]]]]

\* the default labels 0..n-1, and the labels left when the first row of a
\* longer table was dropped
RowLabels(n) == {[k \in 1..n |-> k - 1], [k \in 1..n |-> k]}

\* a turn_row_into_rows call is made on the table df
RowsArgs(df, row, sep, strict) ==
    /\ args = [df |-> df, row |-> row, sep |-> sep, strict |-> strict]
    /\ fn = ""
    /\ exc = ""
    /\ ret = <<>>
    /\ caller_df = df

InitRows_Split ==
    \E n \in 1..MaxSplitRows, row \in 0..MaxSplitRows, cols \in 1..MaxSplitCols,
       sep \in Separators, strict \in BOOLEAN :
        \E line \in [1..cols -> SplitCells], labels \in RowLabels(n) :
            RowsArgs(RowTable(n, row, line, labels), row, sep, strict)

\* the table whose header row, named columns_name, holds the cells of line
HeaderTable(line, columns_name) ==
    [index        |-> <<"r0", "r1">>,
     columns      |-> line,
     columns_name |-> columns_name,
     values       |-> [r \in 1..2 |-> [c \in 1..Len(line) |-> OtherCells("o")[r]]]]

\* a turn_row_into_rows_sep call is made on the table df
SepArgs(df, row, sep, row_names, strict) ==
    /\ args = [df |-> df, row |-> row, sep |-> sep, row_names |-> row_names,
               strict |-> strict]
    /\ fn = ""
    /\ exc = ""
    /\ ret = <<>>
    /\ caller_df = df

InitRows_Sep ==
    \E cols \in 1..MaxSplitCols, columns_name \in {"header", "None"},
       row \in {"header", "r1", "r9"}, sep \in Separators, strict \in BOOLEAN,
       row_names \in {<<>>, << <<>> >>, << <<"row_a", "row_b">> >>} :
        \E line \in [1..cols -> SplitCells \cup {"-"}] :
            SepArgs(HeaderTable(line, columns_name), row, sep, row_names, strict)

InitRows == InitRows_Split \/ InitRows_Sep

\* the arguments held are those of a turn_row_into_rows_sep call
SepCall == "row_names" \in DOMAIN args

\* the arguments held are those of a turn_row_into_rows call
RowsCall == "row" \in DOMAIN args /\ ~SepCall

Call_turn_row_into_rows ==
    /\ fn = ""
    /\ RowsCall
    /\ Returns("turn_row_into_rows",
               turn_row_into_rows(args.df, args.row, args.sep, args.strict))
    /\ UNCHANGED <<args, caller_df>>

Call_turn_row_into_rows_sep ==
    /\ fn = ""
    /\ SepCall
    /\ Returns("turn_row_into_rows_sep",
               turn_row_into_rows_sep(args.df, args.row, args.sep, args.row_names,
                                      args.strict))
    /\ UNCHANGED <<args, caller_df>>

NextRows == Call_turn_row_into_rows \/ Call_turn_row_into_rows_sep

SpecRows == InitRows /\ [][NextRows]_vars

----------------------------------------------------------------------------
(* check_number_rowscolumns.  A number passed as min or max is             *)
(* [is_int, value]: is_int tells an int from a float of the same value.    *)

\* check_number_rowscolumns, were the largest count refused
check_number_rowscolumns_BelowMax(df, min, max, axis) ==
    IF ~min.is_int \/ ~max.is_int THEN [exc |-> "TypeError", ret |-> FALSE]
    ELSE IF min.value < 0 \/ max.value < 0 \/ min.value > max.value
    THEN [exc |-> "ValueError", ret |-> FALSE]
    ELSE IF axis \in {"0", "index"}
    THEN [exc |-> "", ret |-> min.value <= TableRows(df) /\ TableRows(df) < max.value]
    ELSE IF axis \in {"1", "columns"}
    THEN [exc |-> "", ret |-> min.value <= TableCols(df) /\ TableCols(df) < max.value]
    ELSE [exc |-> "ValueError", ret |-> FALSE]

\* check_number_rowscolumns: [exc, ret]
check_number_rowscolumns(df, min, max, axis) ==
    IF ~min.is_int THEN [exc |-> "TypeError", ret |-> FALSE]
    ELSE IF ~max.is_int THEN [exc |-> "TypeError", ret |-> FALSE]
    ELSE IF min.value < 0 \/ max.value < 0 THEN [exc |-> "ValueError", ret |-> FALSE]
    ELSE IF min.value > max.value THEN [exc |-> "ValueError", ret |-> FALSE]
    ELSE IF axis \in {"0", "index"}
    THEN [exc |-> "", ret |-> min.value <= TableRows(df) /\ TableRows(df) <= max.value]
    ELSE IF axis \in {"1", "columns"}
    THEN [exc |-> "", ret |-> min.value <= TableCols(df) /\ TableCols(df) <= max.value]
    ELSE [exc |-> "ValueError", ret |-> FALSE]

\* a table of the given shape
ShapedTable(rows, cols) ==
    [index   |-> [r \in 1..rows |-> r - 1],
     columns |-> [c \in 1..cols |-> c - 1],
     values  |-> [r \in 1..rows |-> [c \in 1..cols |-> "NaN"]]]

\* the numbers passed as min and max
Numbers == [is_int : BOOLEAN, value : (0 - 1)..(MaxShape + 1)]

InitCount ==
    /\ \E rows \in 0..MaxShape, cols \in 0..MaxShape, min \in Numbers, max \in Numbers,
          axis \in Axes \cup {"2"} :
            args = [df |-> ShapedTable(rows, cols), min |-> min, max |-> max, axis |-> axis]
    /\ fn = ""
    /\ exc = ""
    /\ ret = FALSE
    /\ caller_df = <<>>

\* the arguments held are those of a check_number_rowscolumns call
CountCall == "min" \in DOMAIN args

Call_check_number_rowscolumns ==
    /\ fn = ""
    /\ CountCall
    /\ Returns("check_number_rowscolumns",
               check_number_rowscolumns(args.df, args.min, args.max, args.axis))
    /\ UNCHANGED <<args, caller_df>>

NextCount == Call_check_number_rowscolumns

SpecCount == InitCount /\ [][NextCount]_vars

----------------------------------------------------------------------------
(* calculate_date_string_end_date.  Date strings are strings; a Timestamp  *)
(* is [year, month, day].                                                  *)

DigitChars == <<"0", "1", "2", "3", "4", "5", "6", "7", "8", "9">>

IsDigit(c) == \E d \in 1..10 : DigitChars[d] = c

\* int() of one digit
DigitValue(c) == (CHOOSE d \in 1..10 : DigitChars[d] = c) - 1

\* the character at position k, from 1
CharAt(s, k) == SubSeq(s, k, k)

\* s[:n]
str_first(s, n) == SubSeq(s, 1, Min(n, Len(s)))

\* s[-n:]
str_last(s, n) == SubSeq(s, Max(1, Len(s) - n + 1), Len(s))

\* s[a:b]
str_slice(s, a, b) == SubSeq(s, a + 1, Min(b, Len(s)))

\* sub in s
str_contains(s, sub) == \E k \in 1..(Len(s) - Len(sub) + 1) : SubSeq(s, k, k + Len(sub) - 1) = sub

\* the positions at which sep, one character, stands in s
str_positions(s, sep) == {k \in 1..Len(s) : CharAt(s, k) = sep}

\* s.split(sep)[0] and s.split(sep)[1], sep being in s
split_0(s, sep) == SubSeq(s, 1, First(str_positions(s, sep)) - 1)

split_1(s, sep) ==
    SubSeq(s, First(str_positions(s, sep)) + 1,
           IF Cardinality(str_positions(s, sep)) = 1 THEN Len(s)
           ELSE First(str_positions(s, sep) \ {First(str_positions(s, sep))}) - 1)

\* s.strip(), of a string with at most one blank at either end
strip(s) ==
    SubSeq(s, IF CharAt(s, 1) = " " THEN 2 ELSE 1,
              IF CharAt(s, Len(s)) = " " THEN Len(s) - 1 ELSE Len(s))

\* int(s), s being digits
RECURSIVE int(_)
int(s) == IF Len(s) = 0 THEN 0 ELSE 10 * int(SubSeq(s, 1, Len(s) - 1)) + DigitValue(CharAt(s, Len(s)))

\* str(n) to two digits, for n < 100
str_2(n) == DigitChars[(n \div 10) + 1] \o DigitChars[(n % 10) + 1]

\* str(n), for a year of four digits
str(n) == str_2(n \div 100) \o str_2(n % 100)

\* s is made of digits
digits(s) == \A k \in 1..Len(s) : IsDigit(CharAt(s, k))

MonthNames ==
    <<"January", "February", "March", "April", "May", "June", "July", "August",
      "September", "October", "November", "December">>

\* the month that a name, whole or of three letters, names
month_of(name) ==
    CHOOSE m \in 1..12 : MonthNames[m] = name \/ str_first(MonthNames[m], 3) = name

is_leap(year) == year % 4 = 0 /\ (year % 100 # 0 \/ year % 400 = 0)

days_in_month(year, month) ==
    IF month = 2 THEN (IF is_leap(year) THEN 29 ELSE 28)
    ELSE IF month \in {4, 6, 9, 11} THEN 30 ELSE 31

\* a date is one that pd.Timestamp holds: 1677-09-21 to 2262-04-11
in_bounds(year, month, day) ==
    /\ year > 1677 \/ (year = 1677 /\ (month > 9 \/ (month = 9 /\ day >= 21)))
    /\ year < 2262 \/ (year = 2262 /\ (month < 4 \/ (month = 4 /\ day <= 11)))

\* the Timestamp of a date: [exc, ret]
timestamp(year, month, day) ==
    IF month \notin 1..12 \/ day \notin 1..days_in_month(year, month)
    THEN [exc |-> "ValueError", ret |-> <<>>]
    ELSE IF ~in_bounds(year, month, day) THEN [exc |-> "OutOfBoundsDatetime", ret |-> <<>>]
    ELSE [exc |-> "", ret |-> [year |-> year, month |-> month, day |-> day]]

\* pd.to_datetime of a string 'YYYY-MM-DD'
to_datetime(s) ==
    IF Len(s) = 10 /\ digits(SubSeq(s, 1, 4)) /\ digits(SubSeq(s, 6, 7)) /\ digits(SubSeq(s, 9, 10))
       /\ CharAt(s, 5) = "-" /\ CharAt(s, 8) = "-"
    THEN timestamp(int(SubSeq(s, 1, 4)), int(SubSeq(s, 6, 7)), int(SubSeq(s, 9, 10)))
    ELSE [exc |-> "ValueError", ret |-> <<>>]

\* pd.to_datetime of a month and a year, as in 'Jan 2023', 'January 2023'
\* and 'Jan-2023', + relativedelta(months=1) - relativedelta(days=1), the
\* year moved on by years: the last day of the month
month_end(s, years) ==
    timestamp(int(str_last(s, 4)) + years, month_of(SubSeq(s, 1, Len(s) - 5)),
              days_in_month(int(str_last(s, 4)) + years, month_of(SubSeq(s, 1, Len(s) - 5))))

\* str.lower(), of the letters that begin the names of the school terms
RECURSIVE str_lower(_)
str_lower(s) ==
    IF Len(s) = 0 THEN ""
    ELSE str_lower(SubSeq(s, 1, Len(s) - 1))
            \o (CASE CharAt(s, Len(s)) = "A" -> "a"
                   [] CharAt(s, Len(s)) = "S" -> "s"
                   [] OTHER -> CharAt(s, Len(s)))

\* predict_date_format
predict_date_format(date_str) ==
    IF Len(date_str) = 4 THEN "%Y"
    ELSE IF /\ Len(date_str) = 7
            /\ str_contains(date_str, "/")
            /\ Len(split_0(date_str, "/")) = 4
            /\ Len(split_1(date_str, "/")) = 2
    THEN "%Y/%y"
    ELSE "None"

\* a branch that binds end_date on no path of its own
unbound == [exc |-> "UnboundLocalError", ret |-> <<>>]

\* date_str[:2] + date_str[-2:] + <month and day>
end_of_year(date_str, month_day) ==
    to_datetime(str_first(date_str, 2) \o str_last(date_str, 2) \o month_day)

\* the calendar year quarter
calendar_quarter(date_str) ==
    IF str_last(date_str, 3) = "All" THEN to_datetime(str_first(date_str, 4) \o "-12-31")
    ELSE IF str_last(date_str, 1) = "1" THEN to_datetime(str_first(date_str, 4) \o "-03-31")
    ELSE IF str_last(date_str, 1) = "2" THEN to_datetime(str_first(date_str, 4) \o "-06-30")
    ELSE IF str_last(date_str, 1) = "3" THEN to_datetime(str_first(date_str, 4) \o "-09-30")
    ELSE IF str_last(date_str, 1) = "4" THEN to_datetime(str_first(date_str, 4) \o "-12-31")
    ELSE unbound

\* the financial year quarter
financial_quarter(date_str) ==
    IF str_last(date_str, 3) = "All" \/ str_last(date_str, 1) = "4"
    THEN to_datetime(str(int(str_first(date_str, 4)) + 1) \o "-03-31")
    ELSE IF str_last(date_str, 1) = "1" THEN to_datetime(str_first(date_str, 4) \o "-06-30")
    ELSE IF str_last(date_str, 1) = "2" THEN to_datetime(str_first(date_str, 4) \o "-09-30")
    ELSE IF str_last(date_str, 1) = "3" THEN to_datetime(str_first(date_str, 4) \o "-12-31")
    ELSE unbound

\* the school term
school_term(date_str, lowered) ==
    IF str_contains(lowered, "autumn") THEN to_datetime(str_first(date_str, 4) \o "-12-31")
    ELSE IF str_contains(lowered, "spring")
    THEN to_datetime(str_first(date_str, 2) \o str_slice(date_str, 5, 7) \o "-04-30")
    ELSE IF str_contains(lowered, "summer")
    THEN to_datetime(str_first(date_str, 2) \o str_slice(date_str, 5, 7) \o "-08-31")
    ELSE unbound

\* pd.to_datetime of day, month and year with one character between them,
\* the day first
day_first(s) == timestamp(int(str_last(s, 4)), int(SubSeq(s, 4, 5)), int(str_first(s, 2)))

\* pd.to_datetime(date_str, format='%d-%b-%Y')
day_month_name(s) == timestamp(int(str_last(s, 4)), month_of(SubSeq(s, 4, 6)), int(str_first(s, 2)))

\* 'Month YYYY/yy': the year moves on when the month is one of the first
\* three
financial_month(s) == month_end(s, IF month_of(SubSeq(s, 1, Len(s) - 5)) <= 3 THEN 1 ELSE 0)

\* the chain of branches on date_format (lines 72-191): [exc, ret]
end_date(date_str, date_format, financial_year_sep, academic_year_sep) ==
    IF date_format \in {"%Y", "%Y + 1"} THEN to_datetime(date_str \o "-12-31")
    ELSE IF date_format = "%Y/%y" /\ financial_year_sep = "/" THEN end_of_year(date_str, "-03-31")
    ELSE IF date_format = "%Y-%y" /\ financial_year_sep = "-" THEN end_of_year(date_str, "-03-31")
    ELSE IF date_format = "%Y-%y" /\ academic_year_sep = "-" THEN end_of_year(date_str, "-08-31")
    ELSE IF date_format = "%Y/%y" /\ academic_year_sep = "/" THEN end_of_year(date_str, "-08-31")
    ELSE IF date_format = "%Y %Q" THEN calendar_quarter(date_str)
    ELSE IF date_format \in {"%Y/%y %Q", "%Y-%y %Q"} THEN financial_quarter(date_str)
    ELSE IF date_format = "%Y-%y %T" THEN school_term(date_str, str_lower(date_str))
    ELSE IF date_format = "31-03-%Y" THEN day_first(date_str)
    ELSE IF date_format \in {"%b %y - %b %y", "%B %Y - %B %Y"}
    THEN month_end(strip(split_1(date_str, "-")), 0)
    ELSE IF date_format \in {"%B %Y", "%b-%Y"} THEN month_end(date_str, 0)
    ELSE IF date_format = "%b-%y"
    THEN month_end(str_first(date_str, 3) \o "-20" \o str_last(date_str, 2), 0)
    ELSE IF date_format \in {"%B %Y/%y", "%B %Y-%y"}
    THEN financial_month(SubSeq(date_str, 1, Len(date_str) - 3))
    ELSE IF date_format = "%d/%m/%Y" THEN day_first(date_str)
    ELSE IF date_format = "%d-%b-%Y" THEN day_month_name(date_str)
    ELSE IF date_format = "%Y-%m-%d" THEN to_datetime(date_str)
    ELSE [exc |-> "RuntimeError", ret |-> <<>>]

\* calculate_date_string_end_date: [exc, ret]
calculate_date_string_end_date(date_str, date_format, financial_year_sep, academic_year_sep) ==
    end_date(date_str,
             IF date_format = "None" THEN predict_date_format(date_str) ELSE date_format,
             financial_year_sep, academic_year_sep)

\* the start years of the date strings: those about the turn of a century,
\* a year of the tests, the last year of a century and the last year that a
\* Timestamp holds
Years == (MinYear..MaxYear) \cup {2022, 2099, 2262}

\* the year and the two digits of the year after it, as in '2022/23'
year_pair(year, sep) == str(year) \o sep \o str_2((year + 1) % 100)

YearSeps == {"/", "-", "None"}

DateArgs(date_str, date_format, financial_year_sep, academic_year_sep) ==
    /\ args = [date_str |-> date_str, date_format |-> date_format,
               financial_year_sep |-> financial_year_sep,
               academic_year_sep |-> academic_year_sep]
    /\ fn = ""
    /\ exc = ""
    /\ ret = <<>>
    /\ caller_df = <<>>

\* years and pairs of years, under every pair of separators, the format
\* given or predicted
InitDate_Years ==
    \E year \in Years, fin \in YearSeps, acad \in YearSeps :
        \/ \E date_format \in {"%Y", "%Y + 1", "None"} :
                DateArgs(str(year), date_format, fin, acad)
        \/ \E date_format \in {"%Y/%y", "None"} :
                DateArgs(year_pair(year, "/"), date_format, fin, acad)
        \/ \E date_format \in {"%Y-%y", "None"} :
                DateArgs(year_pair(year, "-"), date_format, fin, acad)

\* quarters of calendar and of financial years, and school terms
InitDate_Quarters ==
    \E year \in Years :
        \/ \E quarter \in {"Q1", "Q2", "Q3", "Q4", "All", "Q5"} :
                \/ DateArgs(str(year) \o " " \o quarter, "%Y %Q", "/", "-")
                \/ DateArgs(year_pair(year, "/") \o " " \o quarter, "%Y/%y %Q", "/", "-")
                \/ DateArgs(year_pair(year, "-") \o " " \o quarter, "%Y-%y %Q", "/", "-")
        \/ \E term \in {"Autumn", "spring", "Summer", "Winter"} :
                DateArgs(year_pair(year, "-") \o " " \o term, "%Y-%y %T", "/", "-")

\* months, and spans of months, as the tests give them
InitDate_Months ==
    \E year \in Years, m \in {1, 2, 3, 4, 12} :
        \/ DateArgs(MonthNames[m] \o " " \o str(year), "%B %Y", "/", "-")
        \/ DateArgs(str_first(MonthNames[m], 3) \o "-" \o str(year), "%b-%Y", "/", "-")
        \/ DateArgs(str_first(MonthNames[m], 3) \o "-" \o str_2(year % 100), "%b-%y", "/", "-")
        \/ DateArgs(MonthNames[m] \o " " \o year_pair(year, "/"), "%B %Y/%y", "/", "-")
        \/ DateArgs(MonthNames[m] \o " " \o year_pair(year, "-"), "%B %Y-%y", "/", "-")
        \/ DateArgs("February " \o str(year) \o " - " \o MonthNames[m] \o " " \o str(year + 1),
                    "%B %Y - %B %Y", "/", "-")
        \/ DateArgs("Feb " \o str(year) \o " - " \o str_first(MonthNames[m], 3) \o " " \o str(year + 1),
                    "%b %y - %b %y", "/", "-")

\* days, in the standard formats, and a format that is not handled
InitDate_Days ==
    \E year \in Years, month \in {"02", "03", "06"}, day \in {"01", "29", "31"} :
        \/ DateArgs(str(year) \o "-" \o month \o "-" \o day, "%Y-%m-%d", "/", "-")
        \/ DateArgs(day \o "/" \o month \o "/" \o str(year), "%d/%m/%Y", "/", "-")
        \/ DateArgs(day \o "-" \o str_first(MonthNames[int(month)], 3) \o "-" \o str(year),
                    "%d-%b-%Y", "/", "-")
        \/ DateArgs("31-03-" \o str(year), "31-03-%Y", "/", "-")
        \/ DateArgs(month \o "/" \o str(year), "%m/%Y", "/", "-")

InitDate == InitDate_Years \/ InitDate_Quarters \/ InitDate_Months \/ InitDate_Days

\* the arguments held are those of a calculate_date_string_end_date call
DateCall == "date_str" \in DOMAIN args

Call_calculate_date_string_end_date ==
    /\ fn = ""
    /\ DateCall
    /\ Returns("calculate_date_string_end_date",
               calculate_date_string_end_date(args.date_str, args.date_format,
                                              args.financial_year_sep,
                                              args.academic_year_sep))
    /\ UNCHANGED <<args, caller_df>>

NextDate == Call_calculate_date_string_end_date

SpecDate == InitDate /\ [][NextDate]_vars

----------------------------------------------------------------------------
(* identify_row_differences.  A table compared is [columns, values], its   *)
(* values the rows in order; the table merged is [columns, rows], its rows *)
(* a bag, as the order of the rows of an outer merge is not one the        *)
(* function settles: each row is a tuple of cells, the indicator last      *)
(* while the table has that column.                                        *)

\* the rows of a table, as a set
row_set(df) == {df.values[i] : i \in 1..Len(df.values)}

\* the number of rows of a table that are equal to row
row_count(df, row) == Cardinality({i \in 1..Len(df.values) : df.values[i] = row})

\* the value of _merge for a row of the merge
indicator(df1, df2, row) ==
    IF row \notin row_set(df2) THEN "left_only"
    ELSE IF row \notin row_set(df1) THEN "right_only"
    ELSE "both"

\* the keys that a merge keeps; how is inner when it is not given
merge_keys(df1, df2, how) ==
    IF how \in {"None", "inner"} THEN row_set(df1) \cap row_set(df2)
    ELSE IF how = "left" THEN row_set(df1)
    ELSE IF how = "right" THEN row_set(df2)
    ELSE row_set(df1) \cup row_set(df2)

\* the number of rows that a merge holds for a key
merge_count(df1, df2, row) == Max(1, row_count(df1, row)) * Max(1, row_count(df2, row))

\* the last cell of a row
last_cell(row) == row[Len(row)]

\* a row without its last cell
without_last(row) == SubSeq(row, 1, Len(row) - 1)

\* df1.merge(df2, indicator=True, how=how), on the columns of both, which
\* are the same
merge(df1, df2, how) ==
    [columns |-> Append(df1.columns, "_merge"),
     rows    |-> [row \in {Append(key, indicator(df1, df2, key)) : key \in merge_keys(df1, df2, how)}
                    |-> merge_count(df1, df2, without_last(row))]]

\* df_diff.loc[df_diff['_merge'] == ...]
loc_merge(df_diff, kept) ==
    [columns |-> df_diff.columns,
     rows    |-> [row \in {r \in DOMAIN df_diff.rows : last_cell(r) \in kept} |-> df_diff.rows[row]]]

\* the value that the map gives for an indicator
mapped_value(value, indicator_values) ==
    IF value = "left_only" THEN indicator_values[1]
    ELSE IF value = "right_only" THEN indicator_values[2]
    ELSE "NaN"

mapped_row(row, indicator_values) ==
    Append(without_last(row), mapped_value(last_cell(row), indicator_values))

\* df_diff['_merge'] = df_diff['_merge'].map({...})
map_merge(df_diff, indicator_values) ==
    [columns |-> df_diff.columns,
     rows    |-> [row \in {mapped_row(r, indicator_values) : r \in DOMAIN df_diff.rows}
                    |-> df_diff.rows[CHOOSE r \in DOMAIN df_diff.rows :
                                        without_last(r) = without_last(row)]]]

\* df_diff.drop(columns='_merge')
drop_merge(df_diff) ==
    [columns |-> without_last(df_diff.columns),
     rows    |-> [row \in {without_last(r) : r \in DOMAIN df_diff.rows}
                    |-> df_diff.rows[CHOOSE r \in DOMAIN df_diff.rows : without_last(r) = row]]]

\* lines 231-243, once the rows are chosen
remapped(df_diff, indicator_values, drop_indicator_column) ==
    IF indicator_values # <<>> /\ Len(indicator_values[1]) = 1
    THEN raised("IndexError")
    ELSE [exc |-> "",
          ret |-> IF drop_indicator_column
                  THEN drop_merge(IF indicator_values # <<>> /\ Len(indicator_values[1]) > 0
                                  THEN map_merge(df_diff, indicator_values[1]) ELSE df_diff)
                  ELSE IF indicator_values # <<>> /\ Len(indicator_values[1]) > 0
                  THEN map_merge(df_diff, indicator_values[1]) ELSE df_diff]

\* lines 217-243 on the table merged
row_differences(df_diff, keep_rows, indicator_values, drop_indicator_column) ==
    IF keep_rows = "both"
    THEN remapped(loc_merge(df_diff, {"left_only", "right_only"}), indicator_values,
                  drop_indicator_column)
    ELSE IF keep_rows = "first"
    THEN remapped(loc_merge(df_diff, {"left_only"}), indicator_values, drop_indicator_column)
    ELSE IF keep_rows = "second"
    THEN remapped(loc_merge(df_diff, {"right_only"}), indicator_values, drop_indicator_column)
    ELSE raised("ValueError")

\* identify_row_differences: [exc, ret]; how is the one argument passed on
\* to merge, "None" when it is not given
identify_row_differences(df1, df2, keep_rows, indicator_values, drop_indicator_column, how) ==
    IF \A c \in 1..Len(df1.columns) : ~Contains(df2.columns, df1.columns[c])
    THEN raised("MergeError")
    ELSE row_differences(merge(df1, df2, how), keep_rows, indicator_values,
                         drop_indicator_column)

\* the rows that the tables compared are made of
DiffRows == {<<"x", "1">>, <<"x", "2">>, <<"y", "1">>}

\* the lists of up to MaxDiffRows of them
DiffValues == UNION {[1..n -> DiffRows] : n \in 0..MaxDiffRows}

DiffTable(columns, values) == [columns |-> columns, values |-> values]

DiffArgs(df1, df2, keep_rows, indicator_values, drop_indicator_column, how) ==
    /\ args = [df1 |-> df1, df2 |-> df2, keep_rows |-> keep_rows,
               indicator_values |-> indicator_values,
               drop_indicator_column |-> drop_indicator_column, how |-> how]
    /\ fn = ""
    /\ exc = ""
    /\ ret = <<>>
    /\ caller_df = <<>>

KeepRows == {"both", "first", "second", "all"}

\* two tables and nothing for the merge, under every way of keeping rows and
\* of showing the indicator
InitDiff_Default ==
    \E values1 \in DiffValues, values2 \in DiffValues, keep_rows \in KeepRows,
       indicator_values \in {<<>>, <<<<>>>>, <<<<"old">>>>, <<<<"old", "new">>>>},
       drop_indicator_column \in BOOLEAN :
        DiffArgs(DiffTable(<<"a", "b">>, values1), DiffTable(<<"a", "b">>, values2),
                 keep_rows, indicator_values, drop_indicator_column, "None")

\* the way of merging given
InitDiff_How ==
    \E values1 \in DiffValues, values2 \in DiffValues, keep_rows \in KeepRows,
       how \in {"inner", "outer", "left", "right"}, drop_indicator_column \in BOOLEAN :
        \/ DiffArgs(DiffTable(<<"a", "b">>, values1), DiffTable(<<"a", "b">>, values2),
                    keep_rows, <<>>, drop_indicator_column, how)
        \/ DiffArgs(DiffTable(<<"a", "b">>, values1), DiffTable(<<"a", "b">>, values2),
                    keep_rows, <<<<"old", "new">>>>, FALSE, how)

\* tables without a column in common
InitDiff_Columns ==
    \E values1 \in DiffValues, values2 \in DiffValues, keep_rows \in KeepRows :
        DiffArgs(DiffTable(<<"a", "b">>, values1), DiffTable(<<"c", "d">>, values2),
                 keep_rows, <<>>, TRUE, "None")

InitDiff == InitDiff_Default \/ InitDiff_How \/ InitDiff_Columns

\* the arguments held are those of an identify_row_differences call
DiffCall == "df1" \in DOMAIN args

Call_identify_row_differences ==
    /\ fn = ""
    /\ DiffCall
    /\ Returns("identify_row_differences",
               identify_row_differences(args.df1, args.df2, args.keep_rows,
                                        args.indicator_values,
                                        args.drop_indicator_column, args.how))
    /\ UNCHANGED <<args, caller_df>>

NextDiff == Call_identify_row_differences

SpecDiff == InitDiff /\ [][NextDiff]_vars

----------------------------------------------------------------------------
(* Properties of forward_fill_headers *)

\* a forward_fill_headers call has returned normally
FillReturned == fn = "forward_fill_headers" /\ exc = ""

\* the filled table: the caller's own table in place, else the one returned
FillResult == IF args.inplace THEN caller_df ELSE ret[1]

\* header level i (0 is the outermost) of a table, as the call reads it
Level(df, i) == get_level(df, args.axis, label_min(level_labels(df, args.axis)) + i)

\* the positions before k whose cell is not missing
Preceding(line, k) == {j \in 1..(k - 1) : ~isna(line[j])}

\* line `after` is line `before` with every missing cell that has a
\* non-missing cell before it holding the nearest such cell's value, and
\* every other cell as it was
ForwardFilled(before, after) ==
    /\ Len(after) = Len(before)
    /\ \A k \in 1..Len(before) :
          after[k] = IF isna(before[k]) /\ Preceding(before, k) # {}
                     THEN before[Last(Preceding(before, k))]
                     ELSE before[k]

\* C14: after a call with header_count >= 1 header level 0 is
\* forward-filled: a missing cell with a non-missing cell before it holds
\* the nearest such cell's value, and all other cells are unchanged.
C14_LevelZeroFilled ==
    (FillReturned /\ args.header_count >= 1) =>
        ForwardFilled(Level(args.df, 0), Level(FillResult, 0))

\* the positions before k whose cell is not missing and whose parent cell
\* holds the same non-missing value as that of k
PrecedingInGroup(parent, line, k) ==
    {j \in 1..(k - 1) : ~isna(line[j]) /\ ~isna(parent[k]) /\ parent[j] = parent[k]}

\* every cell missing in line `before` holds in line `after` the value of
\* the nearest cell before it that has the same parent value, and is still
\* missing when there is none
FilledWithinParent(parent, before, after) ==
    \A k \in 1..Len(before) :
        isna(before[k]) =>
            IF PrecedingInGroup(parent, before, k) # {}
            THEN after[k] = before[Last(PrecedingInGroup(parent, before, k))]
            ELSE isna(after[k])

\* C15: after a call with header_count = N >= 2, at every level i in
\* 1..N-1 a cell that was missing holds the value of the nearest preceding
\* non-missing level-i cell whose level i-1 value, as filled, is the same as
\* its own, and is still missing when there is no such cell; so it never
\* takes a value from under another parent value, and it takes one from an
\* earlier, non-adjacent span of its own parent value.
C15_FilledWithinParent ==
    (FillReturned /\ args.header_count >= 2) =>
        \A i \in 1..(args.header_count - 1) :
            FilledWithinParent(Level(FillResult, i - 1), Level(args.df, i), Level(FillResult, i))

\* C15 witness: under the parent values one, two, one the last cell of
\* level 1 was filled from the first, across the span of two, whose cell
\* is still missing
C15_Witness ==
    /\ FillReturned /\ args.header_count = 2
    /\ Level(FillResult, 0) = <<"one", "two", "one">>
    /\ Level(args.df, 1) = <<"x1", "NaN", "NaN">>
    /\ Level(FillResult, 1) = <<"x1", "NaN", "x1">>

\* the cells of line `before` whose parent cell is missing are the same in
\* line `after`
KeptUnderMissingParent(parent, before, after) ==
    \A k \in 1..Len(before) : isna(parent[k]) => after[k] = before[k]

\* C16: after a call with header_count >= 2, a cell of a level i >= 1
\* whose level i-1 cell is missing is left out of the fill: its content,
\* missing or not, is what it was before the call.
C16_MissingParentKept ==
    (FillReturned /\ args.header_count >= 2) =>
        \A i \in 1..(args.header_count - 1) :
            KeptUnderMissingParent(Level(FillResult, i - 1), Level(args.df, i), Level(FillResult, i))

\* the outcome of the same call made on the table df, not in place
FilledAgain(df) ==
    forward_fill_headers(df, args.header_count, args.axis, FALSE, args.writes_through)

\* the call made on df returns a table equal to df
FixedPoint(df, again) == again.exc = "" /\ again.ret = <<df>>

\* C17: with header_count = 1, on either axis, forward_fill_headers applied
\* to its own result gives the table that one application gave.
C17_Idempotent ==
    (FillReturned /\ args.header_count = 1) =>
        FixedPoint(FillResult, FilledAgain(FillResult))

\* C17 witness: a call with header_count = 1 has filled two cells of
\* level 0, and a second call leaves its result as it is
C17_Witness ==
    /\ FillReturned /\ args.header_count = 1
    /\ Level(args.df, 0) = <<"one", "NaN", "NaN">>
    /\ Level(FillResult, 0) = <<"one", "one", "one">>
    /\ FixedPoint(FillResult, FilledAgain(FillResult))

\* the call has failed on its arguments: an axis that is none of
\* 0/1/index/columns, or a header_count that is not positive
FillRejected ==
    /\ fn = "forward_fill_headers"
    /\ args.axis \notin Axes \/ args.header_count <= 0

----------------------------------------------------------------------------
(* Properties of turn_column_into_columns_values *)

\* a call of the splitter, direct or through turn_column_into_columns, has
\* come back
SplitDone == fn \in {"turn_column_into_columns_values", "turn_column_into_columns"}

\* ... with a table
SplitReturned == SplitDone /\ exc = ""

\* the groups and the source column of the call
GroupsGiven == args.values[1]

SourceGiven == column_values(args.df, args.column)

\* the number of names of the returned table before its new columns: the
\* names before the column among the index levels or among the columns
NamesBefore ==
    IF Contains(index_names(args.df), args.column)
    THEN index_of(index_names(args.df), args.column)
    ELSE index_of(column_labels(args.df), args.column)

\* new column i of the returned table
NewColumn(i) == [r \in 1..Len(ret.values) |-> ret.values[r][NamesBefore + i]]

\* a value belongs to one of the named groups
InNamedGroup(value) ==
    \E j \in 1..Len(GroupsGiven) :
        GroupsGiven[j] # <<"None">> /\ Contains(GroupsGiven[j], value)

\* the call supplies no value for missing cells
NothingSupplied ==
    args.missing_values # <<>> =>
        \A i \in 1..Len(args.missing_values[1]) : args.missing_values[1][i] = "None"

\* the partition of the source column: the cell of group i at row r
PartitionCell(i, r) ==
    IF GroupsGiven[i] # <<"None">>
    THEN IF Contains(GroupsGiven[i], SourceGiven[r]) THEN SourceGiven[r] ELSE "NaN"
    ELSE IF InNamedGroup(SourceGiven[r]) THEN "NaN" ELSE SourceGiven[r]

\* C19: the table returned has one new column per group; the column of a
\* named group holds the source value at the rows whose value is in the
\* group and a missing marker at every other row, and the catch-all column
\* holds the source value at exactly the rows whose value is in no named
\* group (for the groups [['A','B'],[None]] and the source A, B, C, D the
\* columns A, B, NaN, NaN and NaN, NaN, C, D).
C19_Partition ==
    (SplitReturned /\ NothingSupplied) =>
        \A i \in 1..Len(GroupsGiven) : \A r \in 1..Len(SourceGiven) :
            NewColumn(i)[r] = PartitionCell(i, r)

\* the list of groups breaks the rules on the catch-all group: more than
\* one, or one that is not last
CatchAllMisplaced ==
    \/ count(GroupsGiven, <<"None">>) > 1
    \/ count(GroupsGiven, <<"None">>) = 1 /\ GroupsGiven[Len(GroupsGiven)] # <<"None">>

\* a strict call on a column of the table with at least one group
StrictSplit ==
    /\ SplitDone
    /\ args.split_by = "values" /\ args.strict
    /\ args.values # <<>> /\ GroupsGiven # <<>>
    /\ Contains(args.df.names, args.column)

\* nothing but the catch-all rules can make the call fail: every value of
\* the groups is in the column, there is a name for every group, and
\* missing_values is a list no longer than the groups
NothingElseWrong ==
    /\ values_not_found(flattened(GroupsGiven), SourceGiven) = <<>>
    /\ args.column_names = <<>> \/ Len(args.column_names[1]) = Len(GroupsGiven)
    /\ args.missing_values # <<>>
    /\ Len(args.missing_values[1]) <= Len(GroupsGiven)

\* C20: a list of groups with no catch-all group, or with one that is
\* last, is accepted; a list with more than one catch-all group, or with
\* one that is not last, makes the call fail with ValueError, the caller's
\* table unchanged.
C20_CatchAllRules ==
    StrictSplit =>
        /\ CatchAllMisplaced => (exc = "ValueError" /\ caller_df = args.df)
        /\ (~CatchAllMisplaced /\ NothingElseWrong) => exc = ""

\* the values of the named groups that the source column lacks
Absent ==
    {value \in UNION {{GroupsGiven[i][k] : k \in 1..Len(GroupsGiven[i])} :
                          i \in 1..Len(GroupsGiven)} :
        value # "None" /\ \A r \in 1..Len(SourceGiven) : SourceGiven[r] # value}

\* C21: a strict call in which some value of a named group does not occur
\* in the source column fails with ValueError, the error names every such
\* value, and the caller's table is unchanged.
C21_StrictAbsent ==
    (StrictSplit /\ Absent # {}) =>
        /\ exc = "ValueError"
        /\ {ret[k] : k \in 1..Len(ret)} = Absent
        /\ caller_df = args.df

\* C21 witness: a strict call has failed naming three absent values
C21_Witness ==
    /\ StrictSplit /\ exc = "ValueError"
    /\ GroupsGiven = << <<"A", "B">>, <<"C">> >>
    /\ SourceGiven = <<"NaN", "NaN">>
    /\ ret = <<"A", "B", "C">>

\* the names and cells of the argument that the result is made of: all of
\* them when the column is an index level, else those of the columns
OffsetGiven ==
    IF Contains(index_names(args.df), args.column) THEN 0 ELSE args.df.index_count

NamesGiven == SubSeq(args.df.names, OffsetGiven + 1, Len(args.df.names))

CellGiven(r, j) == args.df.values[r][OffsetGiven + j]

\* where name j of the argument is in the result: before the new columns
\* as it was, after them moved by their number less one
PlaceAfter(j) == IF j <= NamesBefore THEN j ELSE j - 1 + Len(GroupsGiven)

\* C22: the table returned has the rows of the argument in their order; its
\* new columns, one per group, stand where the source column stood, which
\* is gone; every other column has its name, its place among the others
\* and its cells; and the caller's table is as it was.
C22_InPlaceOfColumn ==
    SplitReturned =>
        /\ Len(ret.values) = Len(args.df.values)
        /\ Len(ret.names) = Len(NamesGiven) - 1 + Len(GroupsGiven)
        /\ ~Contains(ret.names, args.column)
        /\ \A i \in 1..Len(GroupsGiven) :
              args.column_names # <<>> => ret.names[NamesBefore + i] = args.column_names[1][i]
        /\ \A j \in 1..Len(NamesGiven) :
              j # NamesBefore + 1 =>
                /\ ret.names[PlaceAfter(j)] = NamesGiven[j]
                /\ \A r \in 1..Len(ret.values) :
                      /\ Len(ret.values[r]) = Len(ret.names)
                      /\ ret.values[r][PlaceAfter(j)] = CellGiven(r, j)
        /\ caller_df = args.df

\* C22 witness: the column between two others has been replaced by two new
\* columns, the others and the three rows kept
C22_Witness ==
    /\ SplitReturned
    /\ args.df.names = <<"o", "c", "p">>
    /\ ret.names = <<"o", "column_0", "column_1", "p">>
    /\ ret.values = << <<"o1", "A", "NaN", "p1">>,
                       <<"o2", "A", "C", "p2">>,
                       <<"o3", "B", "NaN", "p3">> >>

\* the rows at or above row r whose source value is in group i
RowsOfGroup(i, r) == {q \in 1..r : Contains(GroupsGiven[i], SourceGiven[q])}

\* the most recent value of group i at or above row r, missing above the
\* first one
MostRecent(i, r) ==
    IF RowsOfGroup(i, r) = {} THEN "NaN" ELSE SourceGiven[Last(RowsOfGroup(i, r))]

\* the cell of new column i at row r before any value is supplied for
\* missing cells
FilledCell(i, r) ==
    IF GroupsGiven[i] # <<"None">> THEN MostRecent(i, r)
    ELSE IF InNamedGroup(SourceGiven[r]) THEN "NaN"
    ELSE SourceGiven[r]

\* C28: in the table returned the column of a named group holds at every
\* row the most recent value of the group at or above the row, and the
\* column of the catch-all group holds a value only at the rows whose own
\* source value is in no named group
C28_NamedFilledCatchAllNot ==
    (SplitReturned /\ NothingSupplied) =>
        \A i \in 1..Len(GroupsGiven) : \A r \in 1..Len(SourceGiven) :
            NewColumn(i)[r] = FilledCell(i, r)

\* the source C, A, C split into the group A and the catch-all group: A is
\* carried down to the last row, and the catch-all column keeps its gap
C28_Witness ==
    /\ SplitReturned /\ NothingSupplied
    /\ SourceGiven = <<"C", "A", "C">>
    /\ GroupsGiven = << <<"A">>, <<"None">> >>
    /\ NewColumn(1) = <<"NaN", "A", "A">>
    /\ NewColumn(2) = <<"C", "NaN", "C">>

\* the call made, with another missing_values
SameCallSupplying(missing_values) ==
    IF fn = "turn_column_into_columns_values"
    THEN turn_column_into_columns_values(args.df, args.column, args.values[1],
             missing_values, args.column_names, args.strict)
    ELSE turn_column_into_columns(args.df, args.column, args.split_by, args.sep,
             args.values, missing_values, args.column_names, args.strict)

\* the value supplied for the missing cells of new column i, "None" when
\* there is none
ValueSupplied(i) ==
    IF i <= Len(args.missing_values[1]) THEN args.missing_values[1][i] ELSE "None"

\* C29: missing_values is optional.  A call that does not supply it, and
\* that returns a table when an empty list is supplied, returns that table;
\* when it is supplied, entry i replaces the missing cells left in new
\* column i and in no other column, and an entry None leaves the column as
\* it is
C29_MissingValuesOptional ==
    /\ (SplitDone /\ args.missing_values = <<>> /\ SameCallSupplying(<< <<>> >>).exc = "")
        => (exc = "" /\ ret = SameCallSupplying(<< <<>> >>).ret)
    /\ (SplitReturned /\ args.missing_values # <<>>)
        => \A i \in 1..Len(GroupsGiven) : \A r \in 1..Len(SourceGiven) :
            NewColumn(i)[r] = IF ValueSupplied(i) # "None" /\ isna(FilledCell(i, r))
                              THEN ValueSupplied(i)
                              ELSE FilledCell(i, r)

----------------------------------------------------------------------------
(* Properties of turn_row_into_rows and turn_row_into_rows_sep *)

\* a turn_row_into_rows call on a row of the table has come back
RowsDone ==
    /\ fn = "turn_row_into_rows"
    /\ args.row + 1 \in 1..TableRows(args.df)

\* a turn_row_into_rows_sep call on the header row has come back
SepDone == fn = "turn_row_into_rows_sep" /\ args.row = args.df.columns_name

\* the cells of the row that the call is to split
RowGiven == IF SepCall THEN args.df.columns ELSE args.df.values[args.row + 1]

\* the separator is in every cell of the row that is not missing
SepInEvery ==
    \A c \in 1..Len(RowGiven) : ~isna(RowGiven[c]) => sep_in(args.sep, RowGiven[c])

\* C23: a strict call of turn_row_into_rows or turn_row_into_rows_sep on a
\* row with a non-missing cell that lacks the separator fails with
\* ValueError.
C23_StrictEveryCell ==
    ((RowsDone \/ SepDone) /\ args.strict /\ ~SepInEvery) => exc = "ValueError"

\* the parts of the cell of column c of the row to split
PartsGiven(c) == IF isna(RowGiven[c]) THEN <<>> ELSE split(RowGiven[c], args.sep)

\* the largest number of parts of a cell of the row
MostParts == Largest({Len(PartsGiven(c)) : c \in 1..Len(RowGiven)})

\* the rows of the argument but the split one, in their order
OtherRows ==
    SubSeq(args.df.values, 1, args.row) \o SubSeq(args.df.values, args.row + 2, TableRows(args.df))

\* a turn_row_into_rows call has split a row: it has returned and the
\* separator is in some cell of the row
RowSplit == RowsDone /\ exc = "" /\ sep_in_any(RowGiven, args.sep)

\* C24: the table returned has the M new rows, M being the largest number
\* of parts of a cell of the split row, and the other rows of the
\* argument, the split row being gone: rows - 1 + M rows in all; new row k
\* holds in each column the k-th part of the cell of the split row, or a
\* missing marker when the cell has fewer parts or is missing.
C24_RowsOfParts ==
    RowSplit =>
        /\ Len(ret.values) = TableRows(args.df) - 1 + MostParts
        /\ \A k \in 1..MostParts : \A c \in 1..Len(RowGiven) :
              IF k <= Len(PartsGiven(c))
              THEN ret.values[k][c] = PartsGiven(c)[k]
              ELSE isna(ret.values[k][c])
        /\ SubSeq(ret.values, MostParts + 1, Len(ret.values)) = OtherRows

\* C30: whatever the labels of the rows, a turn_row_into_rows call on a row
\* with the separator in some cell returns a table from which that row, the
\* one whose cells were split, is gone and in which every other row is
\* kept; a non-strict call on a row with the separator in no cell returns
\* the table given, unchanged.
C30_SplitRowRemoved ==
    /\ (RowsDone /\ sep_in_any(RowGiven, args.sep))
        => (exc = "" /\ SubSeq(ret.values, MostParts + 1, Len(ret.values)) = OtherRows)
    /\ (RowsDone /\ ~args.strict /\ ~sep_in_any(RowGiven, args.sep))
        => (exc = "" /\ ret = args.df /\ caller_df = args.df)

----------------------------------------------------------------------------
(* Properties of check_number_rowscolumns *)

\* a check_number_rowscolumns call with an int min and an int max has come
\* back
CountDone ==
    fn = "check_number_rowscolumns" /\ args.min.is_int /\ args.max.is_int

\* the number of rows or of columns that the axis names
CountGiven ==
    IF args.axis \in {"0", "index"} THEN Len(args.df.values) ELSE Len(args.df.columns)

\* C25: a call that returns gives true exactly when min <= count <= max,
\* count being the number of rows (axis 0 / 'index') or of columns (axis 1
\* / 'columns'); and with min > max the call fails with ValueError whatever
\* the shape of the table and whatever the axis.
C25_WithinRange ==
    CountDone =>
        /\ exc = "" => (ret <=> (args.min.value <= CountGiven /\ CountGiven <= args.max.value))
        /\ args.min.value > args.max.value => exc = "ValueError"

\* C25 witness: a table with as many columns as max, and more than min,
\* has been found within the range
C25_Witness ==
    /\ CountDone /\ exc = "" /\ ret
    /\ args.axis = "columns"
    /\ Len(args.df.columns) = args.max.value
    /\ args.min.value < args.max.value
    /\ Len(args.df.values) > args.max.value

----------------------------------------------------------------------------
(* Properties of calculate_date_string_end_date *)

\* a call of calculate_date_string_end_date has ended
DateDone == fn = "calculate_date_string_end_date"

\* the start year of the date string given
StartYear == int(str_first(args.date_str, 4))

\* C26: a financial year 'YYYY/yy', given with the format '%Y/%y' and the
\* financial year separator '/', has as its end date 31 March of the year
\* YYYY + 1, whatever the start year YYYY
C26_FinancialYearEnd ==
    (DateDone /\ args.date_format = "%Y/%y" /\ args.financial_year_sep = "/"
        /\ args.date_str = year_pair(StartYear, "/"))
    => (exc = "" /\ ret = [year |-> StartYear + 1, month |-> 3, day |-> 31])

----------------------------------------------------------------------------
(* Properties of identify_row_differences *)

\* a call of identify_row_differences has ended
DiffDone == fn = "identify_row_differences"

\* the tables given have the same columns, and the indicator values given,
\* if any, are two
DiffGiven ==
    /\ args.df1.columns = args.df2.columns
    /\ \/ args.indicator_values = <<>>
       \/ Len(args.indicator_values[1]) \in {0, 2}

\* the rows of one table that are not in another, each as often as it
\* stands in the one
RowsNotIn(df, other) == [row \in row_set(df) \ row_set(other) |-> row_count(df, row)]

\* the rows that differ, for a way of keeping rows
RowsWanted(df1, df2, keep_rows) ==
    [row \in (IF keep_rows = "second" THEN {} ELSE row_set(df1) \ row_set(df2))
               \cup (IF keep_rows = "first" THEN {} ELSE row_set(df2) \ row_set(df1))
        |-> row_count(df1, row) + row_count(df2, row)]

\* the rows returned, without the indicator
RowsReturned == IF args.drop_indicator_column THEN ret.rows ELSE drop_merge(ret).rows

\* C27: with two tables and nothing passed on to the merge, the rows
\* returned are the rows of df2 that are not in df1 for keep_rows
\* 'second', the rows of df1 that are not in df2 for 'first', both for
\* 'both'; any other keep_rows raises ValueError
C27_RowDifferences ==
    (DiffDone /\ DiffGiven /\ args.how = "None")
    => IF args.keep_rows \in {"both", "first", "second"}
       THEN exc = "" /\ RowsReturned = RowsWanted(args.df1, args.df2, args.keep_rows)
       ELSE exc = "ValueError"

----------------------------------------------------------------------------
(* Any call *)

Init == InitFuzzy \/ InitNumeric \/ InitMultiindex \/ InitFill \/ InitSplit \/ InitRows \/ InitCount \/ InitDate \/ InitDiff

Next == NextFuzzy \/ NextNumeric \/ NextMultiindex \/ NextFill \/ NextSplit \/ NextRows \/ NextCount \/ NextDate \/ NextDiff

Spec == Init /\ [][Next]_vars

=============================================================================
